---- MODULE Spec2Model ----
(***************************************************************************)
(* wmux: the hub (internal/wshub), the control-mode supervisor             *)
(* (internal/tmuxproc), the command policy (internal/policy) and the       *)
(* argv quoter, as one state machine.                                      *)
(*                                                                         *)
(* Strings are sequences of one-character strings, so the quoter, the      *)
(* policy's command-name extraction and the newline framing of Send are    *)
(* computed character by character.                                        *)
(***************************************************************************)
EXTENDS Integers, Sequences, FiniteSets, TLC

\* ------------------------------------------------------------------------
\* Bounds of the model
\* ------------------------------------------------------------------------
MaxMsgs == 2

\* command lines written to the subprocess over a behaviour
MaxReq == 2

MaxRestarts == 1

MaxCaptures == 1

\* capacity of a client outbox in the model (hub.go:259 uses 256)
OutboxCap == 1

\* capacity of the parser event channel in the model (hub.go:300 uses 512)
EventCap == 1

\* attempts of RequestStateSyncWithRetry in the model (hub.go:150 uses 10)
SyncAttempts == 2

\* lines fed to the StreamParser under test
MaxLines == 3

\* calls of StreamParser.Close
MaxCloseCalls == 3

\* %output lines the subprocesses write
MaxOutputs == 2

\* relaunches of the subprocess by a Manager without an OnRestart callback
MaxSleeps == 6

Clients == {"c1", "c2"}

\* ------------------------------------------------------------------------
\* Strings
\* ------------------------------------------------------------------------
Lowers == <<"a","b","c","d","e","f","g","h","i","j","k","l","m",
            "n","o","p","q","r","s","t","u","v","w","x","y","z">>

Uppers == <<"A","B","C","D","E","F","G","H","I","J","K","L","M",
            "N","O","P","Q","R","S","T","U","V","W","X","Y","Z">>

Digits == {"0","1","2","3","4","5","6","7","8","9"}

Min(a, b) == IF a < b THEN a ELSE b

RECURSIVE Pow2(_)
Pow2(n) == IF n = 0 THEN 1 ELSE 2 * Pow2(n - 1)

Range(f) == {f[i] : i \in DOMAIN f}

\* unicode.IsSpace restricted to the characters the model uses
IsSpace(ch) == ch \in {" ", "\n", "\t", "\r"}

\* strings.ToLower, one character
ToLowerCh(ch) ==
  IF \E i \in 1..26 : Uppers[i] = ch
    THEN Lowers[CHOOSE i \in 1..26 : Uppers[i] = ch]
    ELSE ch

ToLower(s) == [i \in 1..Len(s) |-> ToLowerCh(s[i])]

RECURSIVE TrimLeft(_)
TrimLeft(s) ==
  IF s # <<>> /\ IsSpace(Head(s)) THEN TrimLeft(Tail(s)) ELSE s

RECURSIVE TrimRight(_)
TrimRight(s) ==
  IF s # <<>> /\ IsSpace(s[Len(s)])
    THEN TrimRight(SubSeq(s, 1, Len(s) - 1))
    ELSE s

\* strings.TrimSpace
TrimSpace(s) == TrimRight(TrimLeft(s))

\* the first whitespace-separated field of s (strings.Fields(s)[0]), <<>> if none
RECURSIVE TakeField(_)
TakeField(s) ==
  IF s = <<>> \/ IsSpace(Head(s)) THEN <<>>
  ELSE <<Head(s)>> \o TakeField(Tail(s))

FirstField(s) == TakeField(TrimLeft(s))

\* one character of the class [A-Za-z0-9_@%:./+\-]
SafeCh(ch) ==
  \/ ch \in Range(Lowers)
  \/ ch \in Range(Uppers)
  \/ ch \in Digits
  \/ ch \in {"_", "@", "%", ":", ".", "/", "+", "-"}

\* safeBareToken.MatchString: ^[A-Za-z0-9_@%:./+\-]+$ (no multi-line flag)
safeBareToken(s) == Len(s) > 0 /\ \A i \in 1..Len(s) : SafeCh(s[i])

\* strings.ReplaceAll(arg, "'", "'\''")
RECURSIVE EscapeQuotes(_)
EscapeQuotes(s) ==
  IF s = <<>> THEN <<>>
  ELSE (IF Head(s) = "'" THEN <<"'", "\\", "'", "'">> ELSE <<Head(s)>>)
       \o EscapeQuotes(Tail(s))

\* quoteArg without the replacement of the quotes inside the argument
quoteArgUnescaped(arg) ==
  IF arg = <<>> THEN <<"'", "'">>
  ELSE IF safeBareToken(arg) THEN arg
  ELSE <<"'">> \o arg \o <<"'">>

quoteArg(arg) ==
  IF arg = <<>> THEN <<"'", "'">>
  ELSE IF safeBareToken(arg) THEN arg
  ELSE <<"'">> \o EscapeQuotes(arg) \o <<"'">>

\* strings.Join(parts, sep)
RECURSIVE Join(_, _)
Join(parts, sep) ==
  IF parts = <<>> THEN <<>>
  ELSE IF Len(parts) = 1 THEN parts[1]
  ELSE parts[1] \o sep \o Join(Tail(parts), sep)

\* encodeArgvCommand: [ok, line, err]
encodeArgvCommand(argv) ==
  IF Len(argv) = 0
    THEN [ok |-> FALSE, line |-> <<>>, err |-> "argv cannot be empty"]
  ELSE LET cmd == ToLower(TrimSpace(argv[1])) IN
    IF ~safeBareToken(cmd)
      THEN [ok |-> FALSE, line |-> <<>>, err |-> "invalid command name"]
      ELSE [ok |-> TRUE,
            line |-> Join(<<cmd>> \o [i \in 1..(Len(argv) - 1) |-> quoteArg(argv[i + 1])],
                          <<" ">>),
            err |-> ""]

\* ------------------------------------------------------------------------
\* Policy
\* ------------------------------------------------------------------------
cSendKeys == <<"s","e","n","d","-","k","e","y","s">>
cRefreshClient == <<"r","e","f","r","e","s","h","-","c","l","i","e","n","t">>
cKillWindow == <<"k","i","l","l","-","w","i","n","d","o","w">>
cListWindows == <<"l","i","s","t","-","w","i","n","d","o","w","s">>
cListPanes == <<"l","i","s","t","-","p","a","n","e","s">>
cDisplayMessage == <<"d","i","s","p","l","a","y","-","m","e","s","s","a","g","e">>
cCapturePane == <<"c","a","p","t","u","r","e","-","p","a","n","e">>
cShowOptions == <<"s","h","o","w","-","o","p","t","i","o","n","s">>

\* policy.Default
Default == {cSendKeys, cRefreshClient, cKillWindow, cListWindows, cListPanes,
            cDisplayMessage, cCapturePane, cShowOptions}

\* policy.commandName
commandName(line) ==
  LET l == TrimSpace(line) IN
  IF l = <<>> THEN <<>> ELSE ToLower(FirstField(l))

\* Policy.ValidateCommand: "" when allowed, the error otherwise
ValidateCommand(cmd) ==
  IF cmd = <<>> THEN "empty command"
  ELSE IF cmd \notin Default THEN "blocked command"
  ELSE ""

\* Policy.Validate
Validate(line) == ValidateCommand(commandName(line))

\* ------------------------------------------------------------------------
\* Pane/window model (output lines are sequences of tab-separated fields)
\* ------------------------------------------------------------------------
modelPrefix == "__WMUX__"

\* strings.HasPrefix(line, modelPrefix), decided on the first field
HasModelPrefix(line) ==
  Len(line) > 0 /\ line[1] \in {"__WMUX__", "__WMUX___win", "__WMUX___pane", "__WMUX___zzz"}

\* strings.TrimPrefix(parts[0], modelPrefix + "_")
Kind(line) ==
  CASE line[1] = "__WMUX___win" -> "win"
    [] line[1] = "__WMUX___pane" -> "pane"
    [] line[1] = "__WMUX___zzz" -> "zzz"
    [] OTHER -> line[1]

\* strconv.Atoi on the numerals the model uses: [ok, v]
Numerals == <<"0", "1", "2", "3", "4", "5", "6", "7", "8", "9">>

Atoi(s) ==
  IF \E i \in 1..10 : Numerals[i] = s
    THEN [ok |-> TRUE, v |-> (CHOOSE i \in 1..10 : Numerals[i] = s) - 1]
    ELSE [ok |-> FALSE, v |-> 0]

\* byte-wise string order on the identifiers the model uses
StrOrder == <<"", "%1", "%2", "%3", "@1", "@2", "@3">>

StrRank(s) == CHOOSE i \in 1..Len(StrOrder) : StrOrder[i] = s

newModelState == [windows |-> {}, panes |-> {}]

\* parsePane: the 12-field record of the list-panes format; a shorter record
\* (applyOutputLines lets 10 fields pass) is the format without session name
\* and current command, whose title is also the name (model_test.go 5-24)
parsePane(parts) ==
  IF Len(parts) < 12
    THEN LET paneIndex == Atoi(parts[4])
             left == Atoi(parts[6])
             top == Atoi(parts[7])
             width == Atoi(parts[8])
             height == Atoi(parts[9])
         IN IF Len(parts) < 10 \/ ~paneIndex.ok \/ ~left.ok \/ ~top.ok \/ ~width.ok
               \/ ~height.ok
              THEN [ok |-> FALSE, pane |-> <<>>]
              ELSE [ok |-> TRUE,
                    pane |-> [ID |-> parts[2], SessionName |-> "", WindowID |-> parts[3],
                              PaneIndex |-> paneIndex.v, Active |-> (parts[5] = "1"),
                              Left |-> left.v, Top |-> top.v, Width |-> width.v,
                              Height |-> height.v, Name |-> parts[10],
                              Title |-> parts[10]]]
    ELSE LET paneIndex == Atoi(parts[5])
             left == Atoi(parts[7])
             top == Atoi(parts[8])
             width == Atoi(parts[9])
             height == Atoi(parts[10])
         IN IF ~paneIndex.ok \/ ~left.ok \/ ~top.ok \/ ~width.ok \/ ~height.ok
              THEN [ok |-> FALSE, pane |-> <<>>]
              ELSE [ok |-> TRUE,
                    pane |-> [ID |-> parts[3], SessionName |-> parts[2],
                              WindowID |-> parts[4],
                              PaneIndex |-> paneIndex.v, Active |-> (parts[6] = "1"),
                              Left |-> left.v, Top |-> top.v, Width |-> width.v,
                              Height |-> height.v, Name |-> parts[11],
                              Title |-> parts[12]]]

\* the iteration with updated set for every record that parses
applyLineAlwaysUpdated(m, line) ==
  IF ~HasModelPrefix(line) THEN [m |-> m, updated |-> FALSE]
  ELSE CASE Kind(line) = "win" ->
              IF Len(line) < 4 \/ ~Atoi(line[3]).ok THEN [m |-> m, updated |-> FALSE]
              ELSE LET next == [ID |-> line[2], Index |-> Atoi(line[3]).v, Name |-> line[4]]
                   IN [m |-> [m EXCEPT !.windows =
                                {w \in m.windows : w.ID # next.ID} \cup {next}],
                       updated |-> TRUE]
         [] Kind(line) = "pane" ->
              IF Len(line) < 10 \/ ~parsePane(line).ok THEN [m |-> m, updated |-> FALSE]
              ELSE LET pane == parsePane(line).pane
                   IN [m |-> [m EXCEPT !.panes =
                                {p \in m.panes : p.ID # pane.ID} \cup {pane}],
                       updated |-> TRUE]
         [] OTHER -> [m |-> m, updated |-> FALSE]

\* one iteration of the loop of applyOutputLines: [m, updated]
applyLine(m, line) ==
  IF ~HasModelPrefix(line) THEN [m |-> m, updated |-> FALSE]
  ELSE CASE Kind(line) = "win" ->
              IF Len(line) < 4 \/ ~Atoi(line[3]).ok THEN [m |-> m, updated |-> FALSE]
              ELSE LET next == [ID |-> line[2], Index |-> Atoi(line[3]).v, Name |-> line[4]]
                   IN IF next \in m.windows THEN [m |-> m, updated |-> FALSE]
                      ELSE [m |-> [m EXCEPT !.windows =
                                     {w \in m.windows : w.ID # next.ID} \cup {next}],
                            updated |-> TRUE]
         [] Kind(line) = "pane" ->
              IF Len(line) < 10 \/ ~parsePane(line).ok THEN [m |-> m, updated |-> FALSE]
              ELSE LET pane == parsePane(line).pane
                   IN IF pane \in m.panes THEN [m |-> m, updated |-> FALSE]
                      ELSE [m |-> [m EXCEPT !.panes =
                                     {p \in m.panes : p.ID # pane.ID} \cup {pane}],
                            updated |-> TRUE]
         [] OTHER -> [m |-> m, updated |-> FALSE]

\* modelState.applyOutputLines: [m, updated]
RECURSIVE applyOutputLines(_, _)
applyOutputLines(m, lines) ==
  IF lines = <<>> THEN [m |-> m, updated |-> FALSE]
  ELSE LET one == applyLine(m, Head(lines))
           rest == applyOutputLines(one.m, Tail(lines))
       IN [m |-> rest.m, updated |-> one.updated \/ rest.updated]

\* a less function that looks at the id only
WindowLessByID(a, b) == StrRank(a.ID) < StrRank(b.ID)

\* the less function of the window sort
WindowLess(a, b) ==
  IF a.Index # b.Index THEN a.Index < b.Index
  ELSE StrRank(a.ID) < StrRank(b.ID)

\* the less function of the pane sort
PaneLess(a, b) ==
  IF a.WindowID # b.WindowID THEN StrRank(a.WindowID) < StrRank(b.WindowID)
  ELSE IF a.PaneIndex # b.PaneIndex THEN a.PaneIndex < b.PaneIndex
  ELSE StrRank(a.ID) < StrRank(b.ID)

RECURSIVE SortWindows(_)
SortWindows(S) ==
  IF S = {} THEN <<>>
  ELSE LET lo == CHOOSE x \in S : \A y \in S \ {x} : WindowLess(x, y)
       IN <<lo>> \o SortWindows(S \ {lo})

RECURSIVE SortPanes(_)
SortPanes(S) ==
  IF S = {} THEN <<>>
  ELSE LET lo == CHOOSE x \in S : \A y \in S \ {x} : PaneLess(x, y)
       IN <<lo>> \o SortPanes(S \ {lo})

\* modelState.snapshot
snapshot(m) == [Windows |-> SortWindows(m.windows), Panes |-> SortPanes(m.panes)]

\* filterStateToTargetSession without the second loop: every window is kept
filterStateKeepWindows(state, targetSession) ==
  IF targetSession = "" THEN state
  ELSE LET keep(p) == p.SessionName = targetSession
       IN [Windows |-> state.Windows, Panes |-> SelectSeq(state.Panes, keep)]

\* filterStateToTargetSession
filterStateToTargetSession(state, targetSession) ==
  IF targetSession = "" THEN state
  ELSE LET keep(p) == p.SessionName = targetSession
           filteredPanes == SelectSeq(state.Panes, keep)
           windowIDs == {filteredPanes[i].WindowID : i \in 1..Len(filteredPanes)}
           ref(w) == w.ID \in windowIDs
       IN [Windows |-> SelectSeq(state.Windows, ref), Panes |-> filteredPanes]

\* ------------------------------------------------------------------------
\* tmuxparse: the control-mode line parser
\* ------------------------------------------------------------------------
\* strings.HasPrefix
HasPrefix(s, p) == Len(s) >= Len(p) /\ SubSeq(s, 1, Len(p)) = p

\* strings.TrimPrefix
TrimPrefix(s, p) == IF HasPrefix(s, p) THEN SubSeq(s, Len(p) + 1, Len(s)) ELSE s

\* strings.TrimLeft(s, " ")
RECURSIVE TrimLeftSp(_)
TrimLeftSp(s) ==
  IF s # <<>> /\ Head(s) = " " THEN TrimLeftSp(Tail(s)) ELSE s

\* strings.Fields
RECURSIVE Fields(_)
Fields(s) ==
  IF TrimLeft(s) = <<>> THEN <<>>
  ELSE <<TakeField(TrimLeft(s))>>
       \o Fields(SubSeq(TrimLeft(s), Len(TakeField(TrimLeft(s))) + 1, Len(TrimLeft(s))))

\* strings.IndexByte: 0 when ch does not occur (the code's -1)
IndexByte(s, ch) ==
  IF \E i \in DOMAIN s : s[i] = ch
    THEN CHOOSE i \in DOMAIN s : s[i] = ch /\ \A j \in 1..(i - 1) : s[j] # ch
    ELSE 0

DigitVal(ch) == (CHOOSE i \in 1..10 : Numerals[i] = ch) - 1

RECURSIVE DigitsVal(_, _)
DigitsVal(s, acc) ==
  IF s = <<>> THEN acc ELSE DigitsVal(Tail(s), acc * 10 + DigitVal(Head(s)))

\* strconv.ParseInt(s, 10, 64) on numerals of a few digits: [ok, v]
ParseInt(s) ==
  IF s = <<>> THEN [ok |-> FALSE, v |-> 0]
  ELSE IF Head(s) \in {"+", "-"}
    THEN IF Tail(s) = <<>> \/ \E i \in DOMAIN Tail(s) : Tail(s)[i] \notin Digits
           THEN [ok |-> FALSE, v |-> 0]
           ELSE [ok |-> TRUE,
                 v |-> IF Head(s) = "-" THEN 0 - DigitsVal(Tail(s), 0)
                       ELSE DigitsVal(Tail(s), 0)]
  ELSE IF \E i \in DOMAIN s : s[i] \notin Digits
    THEN [ok |-> FALSE, v |-> 0]
    ELSE [ok |-> TRUE, v |-> DigitsVal(s, 0)]

pBegin == <<"%", "b", "e", "g", "i", "n">>

pEnd == <<"%", "e", "n", "d">>

pError == <<"%", "e", "r", "r", "o", "r">>

\* parseHeader: [err, h]
parseHeader(raw) ==
  IF Len(Fields(raw)) # 3
    THEN [err |-> "invalid block header", h |-> <<>>]
  ELSE IF \E i \in 1..3 : ~ParseInt(Fields(raw)[i]).ok
    THEN [err |-> "invalid syntax", h |-> <<>>]
  ELSE [err |-> "",
        h |-> [EpochSeconds |-> ParseInt(Fields(raw)[1]).v,
               CommandID |-> ParseInt(Fields(raw)[2]).v,
               Flags |-> ParseInt(Fields(raw)[3]).v]]

\* parseBeginLine: [ok, err, hdr]
parseBeginLine(line) ==
  IF ~HasPrefix(line, pBegin) THEN [ok |-> FALSE, err |-> "", hdr |-> <<>>]
  ELSE IF ~HasPrefix(line, pBegin \o <<" ">>)
    THEN [ok |-> TRUE, err |-> "invalid %begin line", hdr |-> <<>>]
  ELSE IF parseHeader(TrimPrefix(line, pBegin \o <<" ">>)).err # ""
    THEN [ok |-> TRUE, err |-> "invalid %begin header", hdr |-> <<>>]
  ELSE [ok |-> TRUE, err |-> "", hdr |-> parseHeader(TrimPrefix(line, pBegin \o <<" ">>)).h]

\* only %end is taken as a closing marker
parseEndLineEndOnly(line) ==
  IF HasPrefix(line, pEnd)
    THEN IF ~HasPrefix(line, pEnd \o <<" ">>)
           THEN [ok |-> TRUE, err |-> "invalid %end line", hdr |-> <<>>, success |-> FALSE]
         ELSE IF parseHeader(TrimPrefix(line, pEnd \o <<" ">>)).err # ""
           THEN [ok |-> TRUE, err |-> "invalid %end header", hdr |-> <<>>, success |-> FALSE]
         ELSE [ok |-> TRUE, err |-> "", success |-> TRUE,
               hdr |-> parseHeader(TrimPrefix(line, pEnd \o <<" ">>)).h]
  ELSE [ok |-> FALSE, err |-> "", hdr |-> <<>>, success |-> FALSE]

\* parseEndLine: [ok, err, hdr, success]
parseEndLine(line) ==
  IF HasPrefix(line, pEnd)
    THEN IF ~HasPrefix(line, pEnd \o <<" ">>)
           THEN [ok |-> TRUE, err |-> "invalid %end line", hdr |-> <<>>, success |-> FALSE]
         ELSE IF parseHeader(TrimPrefix(line, pEnd \o <<" ">>)).err # ""
           THEN [ok |-> TRUE, err |-> "invalid %end header", hdr |-> <<>>, success |-> FALSE]
         ELSE [ok |-> TRUE, err |-> "", success |-> TRUE,
               hdr |-> parseHeader(TrimPrefix(line, pEnd \o <<" ">>)).h]
  ELSE IF HasPrefix(line, pError)
    THEN IF ~HasPrefix(line, pError \o <<" ">>)
           THEN [ok |-> TRUE, err |-> "invalid %error line", hdr |-> <<>>, success |-> FALSE]
         ELSE IF parseHeader(TrimPrefix(line, pError \o <<" ">>)).err # ""
           THEN [ok |-> TRUE, err |-> "invalid %error header", hdr |-> <<>>, success |-> FALSE]
         ELSE [ok |-> TRUE, err |-> "", success |-> FALSE,
               hdr |-> parseHeader(TrimPrefix(line, pError \o <<" ">>)).h]
  ELSE [ok |-> FALSE, err |-> "", hdr |-> <<>>, success |-> FALSE]

\* only the closing markers are looked at
malformedControlBoundaryClosing(line) ==
  \/ HasPrefix(line, pEnd) /\ ~HasPrefix(line, pEnd \o <<" ">>)
  \/ HasPrefix(line, pError) /\ ~HasPrefix(line, pError \o <<" ">>)

malformedControlBoundary(line) ==
  \/ HasPrefix(line, pBegin) /\ ~HasPrefix(line, pBegin \o <<" ">>)
  \/ HasPrefix(line, pEnd) /\ ~HasPrefix(line, pEnd \o <<" ">>)
  \/ HasPrefix(line, pError) /\ ~HasPrefix(line, pError \o <<" ">>)

\* splitOnce(s, ' '): [a, b]
splitOnce(s) ==
  IF TrimSpace(s) = <<>> THEN [a |-> <<>>, b |-> <<>>]
  ELSE IF IndexByte(TrimSpace(s), " ") = 0 THEN [a |-> TrimSpace(s), b |-> <<>>]
  ELSE [a |-> SubSeq(TrimSpace(s), 1, IndexByte(TrimSpace(s), " ") - 1),
        b |-> TrimSpace(SubSeq(TrimSpace(s), IndexByte(TrimSpace(s), " ") + 1,
                               Len(TrimSpace(s))))]

\* splitNameAndRest: [a, b]
splitNameAndRest(s) ==
  IF IndexByte(s, " ") = 0 THEN [a |-> s, b |-> <<>>]
  ELSE [a |-> SubSeq(s, 1, IndexByte(s, " ") - 1),
        b |-> SubSeq(s, IndexByte(s, " ") + 1, Len(s))]

\* splitFirstTokenPreserve: [a, b]
splitFirstTokenPreserve(s) == splitNameAndRest(TrimLeftSp(s))

\* splitByColon: [a, b]
splitByColon(s) ==
  IF IndexByte(s, ":") = 0 THEN [a |-> TrimSpace(s), b |-> <<>>]
  ELSE [a |-> TrimSpace(SubSeq(s, 1, IndexByte(s, ":") - 1)),
        b |-> TrimLeftSp(SubSeq(s, IndexByte(s, ":") + 1, Len(s)))]

\* takeTwoAndTail: [a, b, tail]
takeTwoAndTail(s) ==
  [a |-> splitOnce(TrimSpace(s)).a,
   b |-> splitOnce(TrimSpace(splitOnce(TrimSpace(s)).b)).a,
   tail |-> splitOnce(TrimSpace(splitOnce(TrimSpace(s)).b)).b]

\* the notification names parseNotification switches on
nName ==
  [output |-> <<"o", "u", "t", "p", "u", "t">>,
   extendedOutput |-> <<"e", "x", "t", "e", "n", "d", "e", "d", "-", "o", "u", "t", "p", "u", "t">>,
   subscriptionChanged |-> <<"s", "u", "b", "s", "c", "r", "i", "p", "t", "i", "o", "n", "-", "c", "h", "a", "n", "g", "e", "d">>,
   message |-> <<"m", "e", "s", "s", "a", "g", "e">>,
   configError |-> <<"c", "o", "n", "f", "i", "g", "-", "e", "r", "r", "o", "r">>,
   sessionRenamed |-> <<"s", "e", "s", "s", "i", "o", "n", "-", "r", "e", "n", "a", "m", "e", "d">>,
   exit |-> <<"e", "x", "i", "t">>,
   clientSessionChanged |-> <<"c", "l", "i", "e", "n", "t", "-", "s", "e", "s", "s", "i", "o", "n", "-", "c", "h", "a", "n", "g", "e", "d">>,
   sessionChanged |-> <<"s", "e", "s", "s", "i", "o", "n", "-", "c", "h", "a", "n", "g", "e", "d">>,
   windowRenamed |-> <<"w", "i", "n", "d", "o", "w", "-", "r", "e", "n", "a", "m", "e", "d">>]

Note(name, raw, args, text, value) ==
  [T |-> "Notification", Name |-> name, Raw |-> raw, Args |-> args, Text |-> text,
   Value |-> value]

\* parseNotification on a line that starts with "%": [err, n]
parseNotification(line) ==
  LET name == splitNameAndRest(TrimPrefix(line, <<"%">>)).a
      rest == splitNameAndRest(TrimPrefix(line, <<"%">>)).b
      fail(msg) == [err |-> msg, n |-> <<>>]
      note(args, text, value) == [err |-> "", n |-> Note(name, line, args, text, value)]
  IN IF line = <<>> \/ line[1] # "%" THEN fail("not a notification")
     ELSE IF name = nName.output
       THEN IF splitFirstTokenPreserve(rest).a = <<>> THEN fail("output missing pane id")
            ELSE note(<<splitFirstTokenPreserve(rest).a>>, <<>>,
                      splitFirstTokenPreserve(rest).b)
     ELSE IF name = nName.extendedOutput
       THEN IF Len(Fields(splitByColon(rest).a)) < 2
              THEN fail("extended-output missing required fields")
              ELSE note(Fields(splitByColon(rest).a), <<>>, splitByColon(rest).b)
     ELSE IF name = nName.subscriptionChanged
       THEN IF Len(Fields(splitByColon(rest).a)) < 5
              THEN fail("subscription-changed missing required fields")
              ELSE note(Fields(splitByColon(rest).a), <<>>, splitByColon(rest).b)
     ELSE IF name \in {nName.message, nName.configError, nName.sessionRenamed, nName.exit}
       THEN note(<<>>, TrimSpace(rest), <<>>)
     ELSE IF name = nName.clientSessionChanged
       THEN IF takeTwoAndTail(rest).a = <<>> \/ takeTwoAndTail(rest).b = <<>>
              THEN fail("client-session-changed missing required fields")
              ELSE note(<<takeTwoAndTail(rest).a, takeTwoAndTail(rest).b>>,
                        takeTwoAndTail(rest).tail, <<>>)
     ELSE IF name = nName.sessionChanged
       THEN IF splitOnce(TrimSpace(rest)).a = <<>>
              THEN fail("session-changed missing required fields")
              ELSE note(<<splitOnce(TrimSpace(rest)).a>>, splitOnce(TrimSpace(rest)).b, <<>>)
     ELSE IF name = nName.windowRenamed
       THEN IF splitOnce(TrimSpace(rest)).a = <<>>
              THEN fail("window-renamed missing required fields")
              ELSE note(<<splitOnce(TrimSpace(rest)).a>>, splitOnce(TrimSpace(rest)).b, <<>>)
     ELSE note(Fields(rest), <<>>, <<>>)

ParseError(line, message) == [T |-> "ParseError", Line |-> line, Message |-> message]

\* the zero BlockHeader
NoHeader == [EpochSeconds |-> 0, CommandID |-> 0, Flags |-> 0]

Command(header, end, success, output) ==
  [T |-> "Command", Header |-> header, End |-> end, Success |-> success, Output |-> output]

\* StreamParser.onCommandBegin
onCommandBegin(h) == <<Command(h, NoHeader, FALSE, <<>>)>>

\* the output line is stored without its surrounding blanks
onCommandLineTrimmed(cmd, line) ==
  IF cmd = <<>> THEN cmd
  ELSE <<[cmd[1] EXCEPT !.Output = Append(@, TrimSpace(line))]>>

\* StreamParser.onCommandLine: the new s.current
onCommandLine(cmd, line) ==
  IF cmd = <<>> THEN cmd
  ELSE <<[cmd[1] EXCEPT !.Output = Append(@, line)]>>

\* the Command takes the header of the closing marker
onCommandEndHeader(cmd, begin, end, success) ==
  IF cmd = <<>>
    THEN [cmd |-> <<>>, evs |-> <<ParseError(<<>>, "command end without active command")>>]
    ELSE [cmd |-> <<>>, evs |-> <<Command(end, end, success, cmd[1].Output)>>]

\* StreamParser.onCommandEnd: [cmd, evs]
onCommandEnd(cmd, begin, end, success) ==
  IF cmd = <<>>
    THEN [cmd |-> <<>>, evs |-> <<ParseError(<<>>, "command end without active command")>>]
    ELSE [cmd |-> <<>>, evs |-> <<Command(begin, end, success, cmd[1].Output)>>]

\* Parser.finishBlock with the callbacks of the StreamParser: [current, cmd, evs]
finishBlock(p, end, success, raw) ==
  IF p.current = <<>>
    THEN [current |-> <<>>, cmd |-> p.cmd,
          evs |-> <<ParseError(raw, "internal: missing active block")>>]
    ELSE [current |-> <<>>,
          cmd |-> onCommandEnd(p.cmd, p.current[1], end, success).cmd,
          evs |-> (IF p.current[1] # end
                     THEN <<ParseError(raw, "mismatched block header")>>
                     ELSE <<>>)
                  \o onCommandEnd(p.cmd, p.current[1], end, success).evs]

\* Parser.FeedLine with the callbacks of the StreamParser, p = [current, cmd]:
\* the parser after the line and the events emitted, [current, cmd, evs]
FeedLine(p, line) ==
  LET keep(evs) == [current |-> p.current, cmd |-> p.cmd, evs |-> evs]
  IN IF p.current # <<>>
       THEN IF parseEndLine(line).ok
              THEN IF parseEndLine(line).err # ""
                     THEN keep(<<ParseError(line, parseEndLine(line).err)>>)
                     ELSE finishBlock(p, parseEndLine(line).hdr, parseEndLine(line).success,
                                      line)
            ELSE IF malformedControlBoundary(line)
              THEN keep(<<ParseError(line, "malformed control boundary")>>)
            ELSE [current |-> p.current, cmd |-> onCommandLine(p.cmd, line), evs |-> <<>>]
     ELSE IF parseBeginLine(line).ok
       THEN IF parseBeginLine(line).err # ""
              THEN keep(<<ParseError(line, parseBeginLine(line).err)>>)
              ELSE [current |-> <<parseBeginLine(line).hdr>>,
                    cmd |-> onCommandBegin(parseBeginLine(line).hdr), evs |-> <<>>]
     ELSE IF parseEndLine(line).ok
       THEN IF parseEndLine(line).err # ""
              THEN keep(<<ParseError(line, parseEndLine(line).err)>>)
              ELSE keep(<<ParseError(line, "end/error without begin")>>)
     ELSE IF HasPrefix(line, <<"%">>)
       THEN IF parseNotification(line).err # ""
              THEN keep(<<ParseError(line, parseNotification(line).err)>>)
              ELSE keep(<<parseNotification(line).n>>)
     ELSE keep(<<ParseError(line, "unexpected line outside command block")>>)

\* lines fed to the parser under test
lBeginA == <<"%", "b", "e", "g", "i", "n", " ", "1", " ", "2", " ", "0">>

lBeginB == <<"%", "b", "e", "g", "i", "n", " ", "1", " ", "3", " ", "0">>

lEndA == <<"%", "e", "n", "d", " ", "1", " ", "2", " ", "0">>

lEndB == <<"%", "e", "n", "d", " ", "1", " ", "3", " ", "0">>

lErrorA == <<"%", "e", "r", "r", "o", "r", " ", "1", " ", "2", " ", "0">>

lText == <<" ", "l", "s", " ", "-", "l">>

lOutput == <<"%", "o", "u", "t", "p", "u", "t", " ", "%", "1", " ", " ", "h", "i">>

lExit == <<"%", "e", "x", "i", "t">>

lBeginX == <<"%", "b", "e", "g", "i", "n", "x">>

lEndX == <<"%", "e", "n", "d">>

lErrorX == <<"%", "e", "r", "r", "o", "r", ":", " ", "x">>

ParserLines ==
  {lBeginA, lBeginB, lEndA, lEndB, lErrorA, lText, lOutput, lExit, lBeginX, lEndX, lErrorX,
   <<>>}

\* ------------------------------------------------------------------------
\* State
\* ------------------------------------------------------------------------
VARIABLES
  targetSession, \* Hub.targetSession
  tmuxBound,     \* Hub.tmux # nil
  mgr,           \* Manager: position of Run, running/stdin, the subprocess, ctx
  stdin,         \* command lines the subprocess has received and not answered
  pipe,          \* response blocks on the subprocess's stdout, not yet fed
  written,       \* every successful Send in order: [tok, src, bytes]
  parser,        \* Hub.parser: the current StreamParser (its generation)
  events,        \* StreamParser.events of every generation
  pclosed,       \* StreamParser.closed: the closed generations
  cons,          \* consumeParserEvents of every generation
  model,         \* Hub.model
  pending,       \* Hub.pending
  clients,       \* Hub.clients
  outbox,        \* client.send of every client session
  oclosed,       \* client sessions whose send channel is closed
  removals,      \* scheduled "go h.removeClient(c)" that have not run
  sess,          \* client.readLoop / HandleWS of every client session, and
                 \* the pane_output envelopes enqueued to it so far
  sync,          \* RequestStateSyncWithRetry goroutines
  cap,           \* CapturePaneContent calls
  nreq,          \* number of request tokens handed out
  sp,            \* a StreamParser fed line by line: parser, channel, callers
  fn             \* a call of a pure function of the hub: its inputs and results

vars == <<targetSession, tmuxBound, mgr, stdin, pipe, written, parser, events,
          pclosed, cons, model, pending, clients, outbox, oclosed, removals,
          sess, sync, cap, nreq, sp, fn>>

\* the variables of the hub and of the supervisor
hubVars == <<targetSession, tmuxBound, mgr, stdin, pipe, written, parser, events,
             pclosed, cons, model, pending, clients, outbox, oclosed, removals,
             sess, sync, cap, nreq>>

\* NewStreamParser: nothing fed, no active block, the channel open and empty
\* the goroutines that call the StreamParser: one feeds lines, two close it
Callers == {"feed", "close1", "close2"}

Closers == {"close1", "close2"}

NewStreamParser ==
  [fed |-> <<>>, current |-> <<>>, cmd |-> <<>>, closed |-> FALSE, ch |-> <<>>,
   sent |-> <<>>, recv |-> <<>>, prev |-> <<>>, evs |-> <<>>,
   mu |-> "", nclose |-> 0, panic |-> "", calls |-> 0, ret |-> 0, late |-> 0,
   thr |-> [t \in Callers |-> [pc |-> "idle", line |-> <<>>, q |-> <<>>]]]

Gens == 0..MaxRestarts

SyncIds == 0..MaxRestarts

CapIds == 1..MaxCaptures

NoPending == [Name |-> <<>>, TargetPane |-> <<>>, EmitPaneSnapshot |-> FALSE,
              Wait |-> 0, tok |-> 0]

NoEvent == [kind |-> "none"]

IdleCons == [pc |-> "recv", ev |-> NoEvent, pend |-> NoPending, state |-> <<>>]

\* ------------------------------------------------------------------------
\* Pure helpers of the hub
\* ------------------------------------------------------------------------
dashT == <<"-", "t">>

\* the loop of pendingFromArgv looking for "-t"
RECURSIVE TargetFrom(_, _)
TargetFrom(argv, i) ==
  IF i > Len(argv) - 1 THEN <<>>
  ELSE IF argv[i] = dashT THEN argv[i + 1]
  ELSE TargetFrom(argv, i + 1)

pendingFromArgv(argv) ==
  LET name == ToLower(TrimSpace(argv[1]))
      target == TargetFrom(argv, 2)
  IN [Name |-> name, TargetPane |-> target,
      EmitPaneSnapshot |-> (name = cCapturePane /\ target # <<>>),
      Wait |-> 0, tok |-> 0]

\* the argv of RequestStateSync (the -F template is one opaque argument)
syncArgv == <<cListPanes, <<"-", "a">>, <<"-", "F">>, <<"#", "{", "f", "}">> >>

\* the argv of CapturePaneContent
captureArgv(paneID, withEscapes) ==
  IF withEscapes
    THEN <<cCapturePane, <<"-", "p">>, <<"-", "e">>, <<"-", "N">>, dashT, paneID>>
    ELSE <<cCapturePane, <<"-", "p">>, <<"-", "N">>, dashT, paneID>>

\* strings.Join(lines, "\n") of output lines: fields joined by tab, lines by newline
RECURSIVE JoinLines(_)
JoinLines(lines) ==
  IF lines = <<>> THEN <<>>
  ELSE IF Len(lines) = 1 THEN Join([i \in 1..Len(lines[1]) |-> <<lines[1][i]>>], <<"\t">>)
  ELSE Join([i \in 1..Len(lines[1]) |-> <<lines[1][i]>>], <<"\t">>)
       \o <<"\n">> \o JoinLines(Tail(lines))

\* parsePaneCursorOutput: [ok, X, Y]
parsePaneCursorOutput(lines) ==
  IF Len(lines) = 0 THEN [ok |-> FALSE, X |-> 0, Y |-> 0]
  ELSE LET parts == lines[1] IN
    IF Len(parts) # 3 \/ parts[1] # "__WMUX_CURSOR" THEN [ok |-> FALSE, X |-> 0, Y |-> 0]
    ELSE IF ~Atoi(parts[2]).ok \/ ~Atoi(parts[3]).ok THEN [ok |-> FALSE, X |-> 0, Y |-> 0]
    ELSE [ok |-> TRUE, X |-> Atoi(parts[2]).v, Y |-> Atoi(parts[3]).v]

\* ------------------------------------------------------------------------
\* The control-mode subprocess (the environment)
\* ------------------------------------------------------------------------
\* the bytes of one Send, split at newlines into the lines the subprocess reads
RECURSIVE SplitLines(_, _)
SplitLines(bytes, acc) ==
  IF bytes = <<>> THEN <<>>
  ELSE IF Head(bytes) = "\n" THEN <<acc>> \o SplitLines(Tail(bytes), <<>>)
  ELSE SplitLines(Tail(bytes), Append(acc, Head(bytes)))

\* panes and windows of the multiplexer server: one pane in the target
\* session, one in another session
WorldPaneLines ==
  << <<"__WMUX___pane", "dev", "%1", "@1", "0", "1", "0", "0", "8", "4", "zsh", "t1">>,
     <<"__WMUX___pane", "ops", "%2", "@2", "0", "1", "0", "0", "8", "4", "zsh", "t2">> >>

WorldWinLines ==
  << <<"__WMUX___win", "@1", "0", "editor">>,
     <<"__WMUX___win", "@2", "1", "ops">> >>

\* the byte of a character of the lines the model uses
ByteOf(ch) ==
  IF ch \in Digits THEN 48 + DigitVal(ch)
  ELSE IF \E i \in 1..26 : Lowers[i] = ch THEN 96 + (CHOOSE i \in 1..26 : Lowers[i] = ch)
  ELSE IF ch = "\\" THEN 92
  ELSE IF ch = "%" THEN 37
  ELSE IF ch = "-" THEN 45
  ELSE 32

isOctal(ch) == ch \in {"0", "1", "2", "3", "4", "5", "6", "7"}

\* tmuxparse.DecodeEscapedValue: the bytes of the decoded value; the octal
\* value is computed in a byte
RECURSIVE DecodeEscapedValue(_)
DecodeEscapedValue(s) ==
  IF s = <<>> THEN <<>>
  ELSE IF s[1] # "\\" THEN <<ByteOf(s[1])>> \o DecodeEscapedValue(Tail(s))
  ELSE IF Len(s) >= 2 /\ s[2] = "\\"
    THEN <<92>> \o DecodeEscapedValue(SubSeq(s, 3, Len(s)))
  ELSE IF Len(s) >= 4 /\ isOctal(s[2]) /\ isOctal(s[3]) /\ isOctal(s[4])
    THEN <<(DigitVal(s[2]) * 64 + DigitVal(s[3]) * 8 + DigitVal(s[4])) % 256>>
         \o DecodeEscapedValue(SubSeq(s, 5, Len(s)))
  ELSE <<92>> \o DecodeEscapedValue(Tail(s))

\* the line "%output <pane> <value>" of the control-mode protocol
OutputLine(paneID, value) ==
  <<"%", "o", "u", "t", "p", "u", "t", " ">> \o paneID \o <<" ">> \o value

\* the event of a notification line, as the parser decodes it outside a
\* block; seq is its place among the lines the reader delivers
NoteEvent(line) == [kind |-> "Notification", n |-> parseNotification(line).n, seq |-> 0]

\* consumeParserEvents: the envelope for a Notification event
noteEnvelope(n) ==
  IF n.Name \in {nName.output, nName.extendedOutput} /\ Len(n.Args) >= 1
    THEN [T |-> "pane_output", PaneID |-> n.Args[1], Data |-> DecodeEscapedValue(n.Value)]
    ELSE [T |-> "tmux_notification", Name |-> n.Name, Args |-> n.Args, Text |-> n.Text,
          Value |-> n.Value]

\* the receiver's word split accepts the line: every quote is closed
RECURSIVE Balanced(_, _)
Balanced(s, inq) ==
  IF s = <<>> THEN ~inq
  ELSE IF inq THEN Balanced(Tail(s), Head(s) # "'")
  ELSE IF Head(s) = "'" THEN Balanced(Tail(s), TRUE)
  ELSE IF Head(s) = "\\" /\ Len(s) >= 2 THEN Balanced(Tail(Tail(s)), FALSE)
  ELSE Balanced(Tail(s), FALSE)

\* the response block the subprocess gives to one received line
Respond(l) ==
  LET name == commandName(l.line)
      okay == Balanced(l.line, FALSE)
  IN [kind |-> "Command", tok |-> l.tok, Success |-> okay,
      Output |-> IF ~okay THEN << <<"parse error">> >>
                 ELSE IF name = cListPanes THEN WorldPaneLines
                 ELSE IF name = cListWindows THEN WorldWinLines
                 ELSE IF name = cDisplayMessage THEN << <<"__WMUX_CURSOR", "3", "4">> >>
                 ELSE IF name = cCapturePane THEN << <<"screen", ToString(l.tok)>> >>
                 ELSE <<>>]

\* ------------------------------------------------------------------------
\* Client messages
\* ------------------------------------------------------------------------
pane1 == <<"%", "1">>

Msg(t, argv) == [json |-> TRUE, T |-> t, Argv |-> argv]

mListPanes == Msg("cmd", syncArgv)
mListWindows == Msg("cmd", <<cListWindows>>)
mSendKeys == Msg("cmd", <<cSendKeys, dashT, pane1, <<"a", " ", "b">> >>)
mUpper == Msg("cmd", << <<" ", "S", "e", "n", "d", "-", "K", "E", "Y", "S", "\n">>, <<"i", "t", "'", "s">> >>)
mCapture == Msg("cmd", <<cCapturePane, <<"-", "p">>, dashT, pane1>>)
mDisplay == Msg("cmd", <<cDisplayMessage, <<"-", "p">>, dashT, pane1, <<"#", "{", "c", "}">> >>)
mNewline == Msg("cmd", <<cSendKeys, <<"\n", "k", "i", "l", "l", "-", "s", "e", "r", "v", "e", "r", "\n">> >>)
mKillServer == Msg("cmd", << <<"k", "i", "l", "l", "-", "s", "e", "r", "v", "e", "r">> >>)
mTwoWords == Msg("cmd", << <<"s", "e", "n", "d", " ", "k", "e", "y", "s">> >>)
mInject == Msg("cmd", << <<"l", "i", "s", "t", "-", "p", "a", "n", "e", "s", ";", "k">> >>)
mEmptyArgv == Msg("cmd", <<>>)
mEmptyName == Msg("cmd", << <<" ">> >>)
mOtherType == Msg("resize", <<cSendKeys>>)
mBadJSON == [json |-> FALSE, T |-> "", Argv |-> <<>>]

AllMsgs == {mListPanes, mListWindows, mSendKeys, mUpper, mCapture, mDisplay, mNewline,
            mKillServer, mTwoWords, mInject, mEmptyArgv, mEmptyName, mOtherType, mBadJSON}

\* ------------------------------------------------------------------------
\* Supervisor: Manager.Send
\* ------------------------------------------------------------------------
\* the error Manager.Send returns in the current state, "" when it writes
\* Send looks at the subprocess, not at the published writer
SendErrAlive ==
  IF ~mgr.alive THEN "tmux control mode not ready"
  ELSE ""

SendErr ==
  IF ~mgr.running THEN "tmux control mode not ready"
  ELSE IF ~mgr.alive THEN "write error"
  ELSE ""

\* io.WriteString(m.stdin, line + "\n") as seen by the subprocess
Wrote(tok, src, line) ==
  \E bytes \in {line \o <<"\n">>} :
    \E ls \in {SplitLines(bytes, <<>>)} :
      /\ written' = Append(written, [tok |-> tok, src |-> src, bytes |-> bytes,
                                       run |-> mgr.run])
      /\ stdin' = stdin \o [i \in 1..Len(ls) |-> [tok |-> tok, line |-> ls[i]]]

\* ------------------------------------------------------------------------
\* Hub: broadcast and client outboxes
\* ------------------------------------------------------------------------
enqueueBlocking(c, m) ==
  IF c \in oclosed THEN outbox[c] ELSE Append(outbox[c], m)

\* client.enqueue: non-blocking send, a closed or full outbox takes nothing
enqueue(c, m) ==
  IF c \in oclosed \/ Len(outbox[c]) >= OutboxCap THEN outbox[c]
  ELSE Append(outbox[c], m)

\* the loop over the clients gives up at the first full outbox
broadcastToUntilFull(m) ==
  [c \in Clients |->
     IF c \in clients /\ (\A d \in clients : Len(outbox[d]) < OutboxCap)
       THEN Append(outbox[c], m)
       ELSE outbox[c]]

\* the loop skips the clients whose removal is already scheduled
broadcastToUnscheduled(m) ==
  [c \in Clients |->
     IF c \in clients \ removals /\ Len(outbox[c]) < OutboxCap THEN Append(outbox[c], m)
     ELSE outbox[c]]

\* Hub.broadcast: the outboxes after it
broadcastTo(m) ==
  [c \in Clients |->
     IF c \in clients /\ Len(outbox[c]) < OutboxCap THEN Append(outbox[c], m)
     ELSE outbox[c]]

\* Hub.broadcast: the clients it schedules for removal
overflowed == {c \in clients : Len(outbox[c]) >= OutboxCap}

broadcast(m) ==
  /\ outbox' = broadcastTo(m)
  /\ removals' = removals \cup overflowed

\* ------------------------------------------------------------------------
\* Initial state: wshub.New, tmuxproc.NewManager
\* ------------------------------------------------------------------------
\* time.Duration values are written in milliseconds
backoffBaseDefault == 500

backoffMaxDefault == 10000

\* NewManager: the defaults of the backoff base and of the backoff cap
NewManager(cfg) ==
  LET base == IF cfg.BackoffBase <= 0 THEN backoffBaseDefault ELSE cfg.BackoffBase
      max == IF cfg.BackoffMax < base THEN backoffMaxDefault ELSE cfg.BackoffMax
  IN [cfg EXCEPT !.BackoffBase = base, !.BackoffMax = max]

\* main.go: the flag defaults of --restart-backoff and --restart-max-backoff,
\* OnRestart is hub.BroadcastRestart
mainCfg == [BackoffBase |-> 500, BackoffMax |-> 10000, OnRestart |-> TRUE]

\* Run: the backoff after a sleep of b under the cap max
nextBackoff(b, max) ==
  IF b < max THEN (IF b * 2 > max THEN max ELSE b * 2) ELSE b

\* Run after runOnce has returned: return if the context is cancelled, call
\* OnRestart if there is one, sleep the backoff otherwise
AfterRun ==
  IF mgr.cancelled THEN "done" ELSE IF mgr.cfg.OnRestart THEN "r_swap" ELSE "backoff"

\* the model explores a bounded number of returns of runOnce
CanRestart ==
  IF mgr.cfg.OnRestart THEN parser < MaxRestarts ELSE Len(mgr.slept) < MaxSleeps

\* no pure function has been called
NoCall == [op |-> "none"]

InitCall(ts, call) ==
  /\ fn = call
  /\ targetSession = ts
  /\ tmuxBound = FALSE
  /\ mgr = [pc |-> "new", running |-> FALSE, alive |-> FALSE, run |-> 0,
            snap |-> snapshot(newModelState), cancelled |-> FALSE,
            cfg |-> NewManager(mainCfg), backoff |-> 0, slept |-> <<>>,
            orphans |-> 0, nout |-> 0, delivered |-> <<>>]
  /\ stdin = <<>>
  /\ pipe = [r \in 1..(MaxRestarts + 1) |-> <<>>]
  /\ written = <<>>
  /\ parser = 0
  /\ events = [g \in Gens |-> <<>>]
  /\ pclosed = {}
  /\ cons = [g \in Gens |-> IF g = 0 THEN IdleCons ELSE [IdleCons EXCEPT !.pc = "off"]]
  /\ model = newModelState
  /\ pending = <<>>
  /\ clients = {}
  /\ outbox = [c \in Clients |-> <<>>]
  /\ oclosed = {}
  /\ removals = {}
  /\ sess = [c \in Clients |-> [pc |-> "new", argv |-> <<>>, tok |-> 0, n |-> 0,
                                 outs |-> <<>>]]
  /\ sync = [k \in SyncIds |-> [pc |-> "off", n |-> 0, tok |-> 0]]
  /\ cap = [k \in CapIds |-> [pc |-> "idle", argv |-> <<>>, tok |-> 0,
                               done |-> <<>>, res |-> <<>>]]
  /\ nreq = 0
  /\ sp = NewStreamParser

InitWith(ts) == InitCall(ts, NoCall)

Init == \E ts \in {"dev", ""} : InitWith(ts)

\* main.go run: the supervisor is bound, Run and the startup state sync are
\* started
InitRunCall(ts, cfg, call) ==
  /\ fn = call
  /\ targetSession = ts
  /\ tmuxBound = TRUE
  /\ mgr = [pc |-> "launch", running |-> FALSE, alive |-> FALSE, run |-> 0,
            snap |-> snapshot(newModelState), cancelled |-> FALSE,
            cfg |-> NewManager(cfg), backoff |-> NewManager(cfg).BackoffBase,
            slept |-> <<>>, orphans |-> 0, nout |-> 0, delivered |-> <<>>]
  /\ stdin = <<>>
  /\ pipe = [r \in 1..(MaxRestarts + 1) |-> <<>>]
  /\ written = <<>>
  /\ parser = 0
  /\ events = [g \in Gens |-> <<>>]
  /\ pclosed = {}
  /\ cons = [g \in Gens |-> IF g = 0 THEN IdleCons ELSE [IdleCons EXCEPT !.pc = "off"]]
  /\ model = newModelState
  /\ pending = <<>>
  /\ clients = {}
  /\ outbox = [c \in Clients |-> <<>>]
  /\ oclosed = {}
  /\ removals = {}
  /\ sess = [c \in Clients |-> [pc |-> "new", argv |-> <<>>, tok |-> 0, n |-> 0,
                                 outs |-> <<>>]]
  /\ sync = [k \in SyncIds |-> [pc |-> IF k = 0 THEN "try" ELSE "off", n |-> 0, tok |-> 0]]
  /\ cap = [k \in CapIds |-> [pc |-> "idle", argv |-> <<>>, tok |-> 0,
                               done |-> <<>>, res |-> <<>>]]
  /\ nreq = 0
  /\ sp = NewStreamParser

InitRun(ts, cfg) == InitRunCall(ts, cfg, NoCall)

InitMain(ts) == InitRun(ts, mainCfg)

\* the startup state sync of run 1 has been answered and consumed: the
\* supervisor waits on its subprocess, the model holds the server's panes
InitSyncedCall(ts, cfg, call) ==
  /\ fn = call
  /\ targetSession = ts
  /\ tmuxBound = TRUE
  /\ mgr = [pc |-> "wait", running |-> TRUE, alive |-> TRUE, run |-> 1,
            snap |-> snapshot(newModelState), cancelled |-> FALSE,
            cfg |-> NewManager(cfg), backoff |-> NewManager(cfg).BackoffBase,
            slept |-> <<>>, orphans |-> 0, nout |-> 0, delivered |-> <<>>]
  /\ stdin = <<>>
  /\ pipe = [r \in 1..(MaxRestarts + 1) |-> <<>>]
  /\ written = <<[tok |-> 1, src |-> "sync",
                  bytes |-> encodeArgvCommand(syncArgv).line \o <<"\n">>, run |-> 1]>>
  /\ parser = 0
  /\ events = [g \in Gens |-> <<>>]
  /\ pclosed = {}
  /\ cons = [g \in Gens |->
               IF g = 0
                 THEN [pc |-> "recv",
                       ev |-> Respond([tok |-> 1, line |-> encodeArgvCommand(syncArgv).line]),
                       pend |-> [pendingFromArgv(syncArgv) EXCEPT !.tok = 1],
                       state |-> <<snapshot(applyOutputLines(newModelState,
                                                             WorldPaneLines).m)>>]
                 ELSE [IdleCons EXCEPT !.pc = "off"]]
  /\ model = applyOutputLines(newModelState, WorldPaneLines).m
  /\ pending = <<>>
  /\ clients = {}
  /\ outbox = [c \in Clients |-> <<>>]
  /\ oclosed = {}
  /\ removals = {}
  /\ sess = [c \in Clients |-> [pc |-> "new", argv |-> <<>>, tok |-> 0, n |-> 0,
                                 outs |-> <<>>]]
  /\ sync = [k \in SyncIds |-> IF k = 0 THEN [pc |-> "done", n |-> 0, tok |-> 1]
                                 ELSE [pc |-> "off", n |-> 0, tok |-> 0]]
  /\ cap = [k \in CapIds |-> [pc |-> "idle", argv |-> <<>>, tok |-> 0,
                               done |-> <<>>, res |-> <<>>]]
  /\ nreq = 1
  /\ sp = NewStreamParser

InitSynced(ts) == InitSyncedCall(ts, mainCfg, NoCall)

\* ------------------------------------------------------------------------
\* main.go: wiring
\* ------------------------------------------------------------------------
\* Hub.BindTmux
BindTmux ==
  /\ ~tmuxBound
  /\ tmuxBound' = TRUE
  /\ UNCHANGED <<fn, sp, targetSession, mgr, stdin, pipe, written, parser, events, pclosed,
                 cons, model, pending, clients, outbox, oclosed, removals, sess,
                 sync, cap, nreq>>

\* go manager.Run(ctx)
MgrStart ==
  /\ tmuxBound
  /\ mgr.pc = "new"
  /\ mgr' = [mgr EXCEPT !.pc = "launch", !.backoff = mgr.cfg.BackoffBase]
  /\ UNCHANGED <<fn, sp, targetSession, tmuxBound, stdin, pipe, written, parser, events,
                 pclosed, cons, model, pending, clients, outbox, oclosed, removals,
                 sess, sync, cap, nreq>>

\* go hub.RequestStateSyncWithRetry() at startup
MainSync ==
  /\ tmuxBound
  /\ sync[0].pc = "off"
  /\ sync' = [sync EXCEPT ![0].pc = "try"]
  /\ UNCHANGED <<fn, sp, targetSession, tmuxBound, mgr, stdin, pipe, written, parser, events,
                 pclosed, cons, model, pending, clients, outbox, oclosed, removals,
                 sess, cap, nreq>>

\* ------------------------------------------------------------------------
\* Supervisor: Manager.Run, Manager.runOnce and the subprocess
\* ------------------------------------------------------------------------
\* the context of Run is cancelled (SIGINT or SIGTERM)
Cancel ==
  /\ tmuxBound
  /\ ~mgr.cancelled
  /\ mgr' = [mgr EXCEPT !.cancelled = TRUE]
  /\ UNCHANGED <<fn, sp, targetSession, tmuxBound, stdin, pipe, written, parser, events,
                 pclosed, cons, model, pending, clients, outbox, oclosed, removals,
                 sess, sync, cap, nreq>>

\* Run looks at the context only at the top of the loop
MgrStopTopOnly ==
  /\ mgr.pc = "launch"
  /\ mgr.cancelled
  /\ mgr' = [mgr EXCEPT !.pc = "done"]
  /\ UNCHANGED <<fn, sp, targetSession, tmuxBound, stdin, pipe, written, parser, events,
                 pclosed, cons, model, pending, clients, outbox, oclosed, removals,
                 sess, sync, cap, nreq>>

\* Run: ctx.Err() != nil at the top of the loop, or ctx.Done() in the backoff
MgrStop ==
  /\ mgr.pc \in {"launch", "backoff"}
  /\ mgr.cancelled
  /\ mgr' = [mgr EXCEPT !.pc = "done"]
  /\ UNCHANGED <<fn, sp, targetSession, tmuxBound, stdin, pipe, written, parser, events,
                 pclosed, cons, model, pending, clients, outbox, oclosed, removals,
                 sess, sync, cap, nreq>>

\* runOnce: pty.Start fails, no writer is published; Run goes on to OnRestart
MgrLaunchFail ==
  /\ mgr.pc = "launch"
  /\ ~mgr.cancelled
  /\ CanRestart
  /\ mgr' = [mgr EXCEPT !.pc = AfterRun]
  /\ UNCHANGED <<fn, sp, targetSession, tmuxBound, stdin, pipe, written, parser, events,
                 pclosed, cons, model, pending, clients, outbox, oclosed, removals,
                 sess, sync, cap, nreq>>

\* runOnce: pty.Start succeeds, the writer is published
MgrLaunch ==
  /\ mgr.pc = "launch"
  /\ ~mgr.cancelled
  /\ mgr' = [mgr EXCEPT !.pc = "wait", !.running = TRUE, !.alive = TRUE, !.run = @ + 1,
                        !.orphans = IF mgr.alive THEN @ + 1 ELSE @]
  /\ stdin' = <<>>
  /\ UNCHANGED <<fn, sp, targetSession, tmuxBound, pipe, written, parser, events, pclosed,
                 cons, model, pending, clients, outbox, oclosed, removals, sess,
                 sync, cap, nreq>>

\* the subprocess answers the next line it has read
ProcRespond ==
  /\ mgr.alive
  /\ stdin # <<>>
  /\ pipe' = [pipe EXCEPT ![mgr.run] = Append(@, Respond(Head(stdin)))]
  /\ stdin' = Tail(stdin)
  /\ UNCHANGED <<fn, sp, targetSession, tmuxBound, mgr, written, parser, events, pclosed,
                 cons, model, pending, clients, outbox, oclosed, removals, sess,
                 sync, cap, nreq>>

\* the subprocess writes a %output line for a pane
ProcOutput(paneID, value) ==
  /\ mgr.alive
  /\ mgr.nout < MaxOutputs
  /\ pipe' = [pipe EXCEPT ![mgr.run] = Append(@, NoteEvent(OutputLine(paneID, value)))]
  /\ mgr' = [mgr EXCEPT !.nout = @ + 1]
  /\ UNCHANGED <<fn, sp, targetSession, tmuxBound, stdin, written, parser, events, pclosed,
                 cons, model, pending, clients, outbox, oclosed, removals, sess,
                 sync, cap, nreq>>

\* the subprocess exits
ProcExit ==
  /\ mgr.pc = "wait"
  /\ mgr.alive
  /\ CanRestart
  /\ mgr' = [mgr EXCEPT !.alive = FALSE]
  /\ UNCHANGED <<fn, sp, targetSession, tmuxBound, stdin, pipe, written, parser, events,
                 pclosed, cons, model, pending, clients, outbox, oclosed, removals,
                 sess, sync, cap, nreq>>

\* the subprocess of a run that returned on a read error exits: runOnce has
\* closed the pty and waits for nothing
ProcHangup ==
  /\ mgr.pc # "wait"
  /\ mgr.alive
  /\ mgr' = [mgr EXCEPT !.alive = FALSE]
  /\ UNCHANGED <<fn, sp, targetSession, tmuxBound, stdin, pipe, written, parser, events,
                 pclosed, cons, model, pending, clients, outbox, oclosed, removals,
                 sess, sync, cap, nreq>>

\* a subprocess of an earlier run that was still running at a later launch
\* exits
OrphanExit ==
  /\ mgr.orphans > 0
  /\ mgr' = [mgr EXCEPT !.orphans = @ - 1]
  /\ UNCHANGED <<fn, sp, targetSession, tmuxBound, stdin, pipe, written, parser, events,
                 pclosed, cons, model, pending, clients, outbox, oclosed, removals,
                 sess, sync, cap, nreq>>

\* runOnce: ctx.Done() is selected, the pty is closed and the writer cleared;
\* Run returns
MgrCancelWait ==
  /\ mgr.pc = "wait"
  /\ mgr.cancelled
  /\ mgr' = [mgr EXCEPT !.pc = "done", !.running = FALSE, !.alive = FALSE]
  /\ stdin' = <<>>
  /\ UNCHANGED <<fn, sp, targetSession, tmuxBound, pipe, written, parser, events, pclosed,
                 cons, model, pending, clients, outbox, oclosed, removals, sess,
                 sync, cap, nreq>>

\* runOnce: the reader reports an error while the subprocess runs; the
\* writer is cleared, Run returns if cancelled and goes on to OnRestart if not
MgrReadError ==
  /\ mgr.pc = "wait"
  /\ mgr.alive
  /\ CanRestart
  /\ mgr' = [mgr EXCEPT !.pc = AfterRun, !.running = FALSE]
  /\ stdin' = <<>>
  /\ UNCHANGED <<fn, sp, targetSession, tmuxBound, pipe, written, parser, events, pclosed,
                 cons, model, pending, clients, outbox, oclosed, removals, sess,
                 sync, cap, nreq>>

\* Run calls OnRestart without looking at the context
MgrExitUnchecked ==
  /\ mgr.pc = "wait"
  /\ ~mgr.alive
  /\ mgr' = [mgr EXCEPT !.pc = "r_swap", !.running = FALSE]
  /\ stdin' = <<>>
  /\ UNCHANGED <<fn, sp, targetSession, tmuxBound, pipe, written, parser, events, pclosed,
                 cons, model, pending, clients, outbox, oclosed, removals, sess,
                 sync, cap, nreq>>

\* runOnce returns: the writer is cleared; Run returns if the context is
\* cancelled and goes on to OnRestart if not
MgrExit ==
  /\ mgr.pc = "wait"
  /\ ~mgr.alive
  /\ mgr' = [mgr EXCEPT !.pc = AfterRun, !.running = FALSE]
  /\ stdin' = <<>>
  /\ UNCHANGED <<fn, sp, targetSession, tmuxBound, pipe, written, parser, events, pclosed,
                 cons, model, pending, clients, outbox, oclosed, removals, sess,
                 sync, cap, nreq>>

\* Run: time.After(backoff) fires, the backoff is doubled up to the cap
MgrBackoff ==
  /\ mgr.pc = "backoff"
  /\ mgr' = [mgr EXCEPT !.pc = "launch",
                        !.slept = Append(@, mgr.backoff),
                        !.backoff = nextBackoff(mgr.backoff, mgr.cfg.BackoffMax)]
  /\ UNCHANGED <<fn, sp, targetSession, tmuxBound, stdin, pipe, written, parser, events,
                 pclosed, cons, model, pending, clients, outbox, oclosed, removals,
                 sess, sync, cap, nreq>>

\* readLines -> Hub.BroadcastTmuxStdoutLine -> StreamParser.FeedLine: the
\* reader of run r feeds one block to the parser that is current
ReaderFeed(r) ==
  /\ pipe[r] # <<>>
  /\ Len(events[parser]) < EventCap
  /\ IF Head(pipe[r]).kind = "Notification"
       THEN /\ events' = [events EXCEPT ![parser] =
                           Append(@, [Head(pipe[r]) EXCEPT !.seq = Len(mgr.delivered) + 1])]
            /\ mgr' = [mgr EXCEPT !.delivered = Append(@, Head(pipe[r]).n.Raw)]
       ELSE /\ events' = [events EXCEPT ![parser] = Append(@, Head(pipe[r]))]
            /\ mgr' = mgr
  /\ pipe' = [pipe EXCEPT ![r] = Tail(@)]
  /\ UNCHANGED <<fn, sp, targetSession, tmuxBound, stdin, written, parser, pclosed,
                 cons, model, pending, clients, outbox, oclosed, removals, sess,
                 sync, cap, nreq>>

\* ------------------------------------------------------------------------
\* Hub.BroadcastRestart, called by Run as OnRestart
\* ------------------------------------------------------------------------
\* resetParser: under the lock, a new parser becomes current
RestartSwap ==
  /\ mgr.pc = "r_swap"
  /\ parser' = parser + 1
  /\ mgr' = [mgr EXCEPT !.pc = "r_close"]
  /\ UNCHANGED <<fn, sp, targetSession, tmuxBound, stdin, pipe, written, events, pclosed,
                 cons, model, pending, clients, outbox, oclosed, removals, sess,
                 sync, cap, nreq>>

\* resetParser: old.Close(), then go consumeParserEvents(newParser)
RestartClose ==
  /\ mgr.pc = "r_close"
  /\ pclosed' = pclosed \cup {parser - 1}
  /\ cons' = [cons EXCEPT ![parser].pc = "recv"]
  /\ mgr' = [mgr EXCEPT !.pc = "r_clear"]
  /\ UNCHANGED <<fn, sp, targetSession, tmuxBound, stdin, pipe, written, parser, events,
                 model, pending, clients, outbox, oclosed, removals, sess, sync,
                 cap, nreq>>

\* the snapshot is taken before the reset
RestartClearSnapshotFirst ==
  /\ mgr.pc = "r_clear"
  /\ model' = newModelState
  /\ pending' = <<>>
  /\ mgr' = [mgr EXCEPT !.pc = "r_state", !.snap = snapshot(model)]
  /\ UNCHANGED <<fn, sp, targetSession, tmuxBound, stdin, pipe, written, parser, events,
                 pclosed, cons, clients, outbox, oclosed, removals, sess, sync,
                 cap, nreq>>

\* under the lock: model.reset(), pending = pending[:0], snapshot
RestartClear ==
  /\ mgr.pc = "r_clear"
  /\ model' = newModelState
  /\ pending' = <<>>
  /\ mgr' = [mgr EXCEPT !.pc = "r_state", !.snap = snapshot(newModelState)]
  /\ UNCHANGED <<fn, sp, targetSession, tmuxBound, stdin, pipe, written, parser, events,
                 pclosed, cons, clients, outbox, oclosed, removals, sess, sync,
                 cap, nreq>>

\* broadcast(tmux_state) with the snapshot taken after the reset
RestartState ==
  /\ mgr.pc = "r_state"
  /\ broadcast([T |-> "tmux_state", State |-> mgr.snap])
  /\ mgr' = [mgr EXCEPT !.pc = "r_restarted"]
  /\ UNCHANGED <<fn, sp, targetSession, tmuxBound, stdin, pipe, written, parser, events,
                 pclosed, cons, model, pending, clients, oclosed, sess, sync,
                 cap, nreq>>

\* broadcast(tmux_restarted)
RestartRestarted ==
  /\ mgr.pc = "r_restarted"
  /\ broadcast([T |-> "tmux_restarted"])
  /\ mgr' = [mgr EXCEPT !.pc = "r_sync"]
  /\ UNCHANGED <<fn, sp, targetSession, tmuxBound, stdin, pipe, written, parser, events,
                 pclosed, cons, model, pending, clients, oclosed, sess, sync,
                 cap, nreq>>

\* go h.RequestStateSyncWithRetry(); BroadcastRestart returns, Run sleeps
RestartSync ==
  /\ mgr.pc = "r_sync"
  /\ sync' = [sync EXCEPT ![parser] = [pc |-> "try", n |-> 0, tok |-> 0]]
  /\ mgr' = [mgr EXCEPT !.pc = "backoff"]
  /\ UNCHANGED <<fn, sp, targetSession, tmuxBound, stdin, pipe, written, parser, events,
                 pclosed, cons, model, pending, clients, outbox, oclosed, removals,
                 sess, cap, nreq>>

\* ------------------------------------------------------------------------
\* Hub.RequestStateSyncWithRetry / RequestStateSync
\* ------------------------------------------------------------------------
\* the number of iterations of the loop
syncRetries == 10

\* the loop bound: the 10 of the code in the specification of the retry loop
\* alone, SyncAttempts where the loop runs next to the rest of the hub
SyncLimit == IF fn.op = "RequestStateSyncWithRetry" THEN syncRetries ELSE SyncAttempts

\* one iteration: RequestStateSync up to and including Send
SyncTry(k) ==
  /\ sync[k].pc = "try"
  /\ IF tmuxBound /\ SendErr = ""
       THEN /\ nreq < MaxReq
            /\ Wrote(nreq + 1, "sync", encodeArgvCommand(syncArgv).line)
            /\ nreq' = nreq + 1
            /\ sync' = [sync EXCEPT ![k].pc = "sent", ![k].tok = nreq + 1]
       ELSE /\ sync' = [sync EXCEPT ![k].n = @ + 1,
                                    ![k].pc = IF sync[k].n + 1 >= SyncLimit
                                                THEN "done" ELSE "try"]
            /\ UNCHANGED <<written, stdin, nreq>>
  /\ UNCHANGED <<fn, sp, targetSession, tmuxBound, mgr, pipe, parser, events, pclosed, cons,
                 model, pending, clients, outbox, oclosed, removals, sess, cap>>

\* RequestStateSync registers and the loop goes on instead of returning
SyncRegisterAndRetry(k) ==
  /\ sync[k].pc = "sent"
  /\ pending' = Append(pending, [pendingFromArgv(syncArgv) EXCEPT !.tok = sync[k].tok])
  /\ sync' = [sync EXCEPT ![k].n = @ + 1,
                           ![k].pc = IF sync[k].n + 1 >= SyncLimit THEN "done" ELSE "try"]
  /\ UNCHANGED <<fn, sp, targetSession, tmuxBound, mgr, stdin, pipe, written, parser, events,
                 pclosed, cons, model, clients, outbox, oclosed, removals, sess,
                 cap, nreq>>

\* RequestStateSync: h.registerPending(argv) after the successful Send
SyncRegister(k) ==
  /\ sync[k].pc = "sent"
  /\ pending' = Append(pending, [pendingFromArgv(syncArgv) EXCEPT !.tok = sync[k].tok])
  /\ sync' = [sync EXCEPT ![k].pc = "done"]
  /\ UNCHANGED <<fn, sp, targetSession, tmuxBound, mgr, stdin, pipe, written, parser, events,
                 pclosed, cons, model, clients, outbox, oclosed, removals, sess,
                 cap, nreq>>

\* ------------------------------------------------------------------------
\* Hub.HandleWS and client.readLoop
\* ------------------------------------------------------------------------
\* HandleWS: addClient
ClientAdd(c) ==
  /\ sess[c].pc = "new"
  /\ clients' = clients \cup {c}
  /\ sess' = [sess EXCEPT ![c].pc = "attached"]
  /\ UNCHANGED <<fn, sp, targetSession, tmuxBound, mgr, stdin, pipe, written, parser, events,
                 pclosed, cons, model, pending, outbox, oclosed, removals, sync,
                 cap, nreq>>

\* HandleWS: enqueue the initial tmux_state from CurrentState, start the loops
ClientInit(c) ==
  /\ sess[c].pc = "attached"
  /\ outbox' = [outbox EXCEPT ![c] =
       enqueue(c, [T |-> "tmux_state",
                   State |-> filterStateToTargetSession(snapshot(model), targetSession)])]
  /\ sess' = [sess EXCEPT ![c].pc = "read"]
  /\ UNCHANGED <<fn, sp, targetSession, tmuxBound, mgr, stdin, pipe, written, parser, events,
                 pclosed, cons, model, pending, clients, oclosed, removals, sync,
                 cap, nreq>>

\* the error readLoop answers message m with, "" when it goes on to Send
RejectErr(m) ==
  LET enc == encodeArgvCommand(m.Argv) IN
  IF ~m.json THEN "invalid JSON"
  ELSE IF m.T # "cmd" THEN "unsupported message type"
  ELSE IF ~enc.ok THEN enc.err
  ELSE IF Validate(enc.line) # "" THEN Validate(enc.line)
  ELSE IF ~tmuxBound THEN "tmux backend unavailable"
  ELSE ""

\* messages read so far by all client sessions
RECURSIVE SumN(_)
SumN(S) == IF S = {} THEN 0 ELSE LET c == CHOOSE x \in S : TRUE IN sess[c].n + SumN(S \ {c})

MsgsRead == SumN(Clients)

\* readLoop: one message, up to and including Send
ClientRecv(c, m) ==
  /\ sess[c].pc = "read"
  /\ MsgsRead < MaxMsgs
  /\ LET err == IF RejectErr(m) # "" THEN RejectErr(m) ELSE SendErr IN
     IF err # ""
       THEN /\ outbox' = [outbox EXCEPT ![c] = enqueue(c, [T |-> "error", Message |-> err])]
            /\ sess' = [sess EXCEPT ![c].n = @ + 1]
            /\ UNCHANGED <<written, stdin, nreq>>
       ELSE /\ nreq < MaxReq
            /\ Wrote(nreq + 1, c, encodeArgvCommand(m.Argv).line)
            /\ nreq' = nreq + 1
            /\ sess' = [sess EXCEPT ![c] = [pc |-> "sent", argv |-> m.Argv,
                                            tok |-> nreq + 1, n |-> sess[c].n + 1,
                                            outs |-> sess[c].outs]]
            /\ UNCHANGED outbox
  /\ UNCHANGED <<fn, sp, targetSession, tmuxBound, mgr, pipe, parser, events, pclosed, cons,
                 model, pending, clients, oclosed, removals, sync, cap>>

\* readLoop: h.registerPending(msg.Argv) after the successful Send
ClientRegister(c) ==
  /\ sess[c].pc = "sent"
  /\ pending' = Append(pending, [pendingFromArgv(sess[c].argv) EXCEPT !.tok = sess[c].tok])
  /\ sess' = [sess EXCEPT ![c].pc = "read", ![c].argv = <<>>, ![c].tok = 0]
  /\ UNCHANGED <<fn, sp, targetSession, tmuxBound, mgr, stdin, pipe, written, parser, events,
                 pclosed, cons, model, clients, outbox, oclosed, removals, sync,
                 cap, nreq>>

\* readLoop returns on a read error; the deferred removeClient runs
ClientDisconnect(c) ==
  /\ sess[c].pc = "read"
  /\ clients' = clients \ {c}
  /\ oclosed' = IF c \in clients THEN oclosed \cup {c} ELSE oclosed
  /\ sess' = [sess EXCEPT ![c].pc = "gone"]
  /\ UNCHANGED <<fn, sp, targetSession, tmuxBound, mgr, stdin, pipe, written, parser, events,
                 pclosed, cons, model, pending, outbox, removals, sync, cap, nreq>>

\* removeClient closes the outbox and leaves the client in the client set
RemoveClientKept(c) ==
  /\ c \in removals
  /\ removals' = removals \ {c}
  /\ oclosed' = IF c \in clients THEN oclosed \cup {c} ELSE oclosed
  /\ UNCHANGED <<fn, sp, targetSession, tmuxBound, mgr, stdin, pipe, written, parser, events,
                 pclosed, cons, model, pending, clients, outbox, sess, sync, cap, nreq>>

\* "go h.removeClient(c)" scheduled by broadcast
RemoveClient(c) ==
  /\ c \in removals
  /\ removals' = removals \ {c}
  /\ clients' = clients \ {c}
  /\ oclosed' = IF c \in clients THEN oclosed \cup {c} ELSE oclosed
  /\ UNCHANGED <<fn, sp, targetSession, tmuxBound, mgr, stdin, pipe, written, parser, events,
                 pclosed, cons, model, pending, outbox, sess, sync, cap, nreq>>

\* client.writeLoop: one envelope leaves the outbox
WriteLoop(c) ==
  /\ sess[c].pc \notin {"new", "attached"}
  /\ outbox[c] # <<>>
  /\ outbox' = [outbox EXCEPT ![c] = Tail(@)]
  /\ UNCHANGED <<fn, sp, targetSession, tmuxBound, mgr, stdin, pipe, written, parser, events,
                 pclosed, cons, model, pending, clients, oclosed, removals, sess,
                 sync, cap, nreq>>

\* ------------------------------------------------------------------------
\* Hub.consumeParserEvents, one goroutine per parser generation
\* ------------------------------------------------------------------------
\* what follows the tmux_command broadcast for the event in hand
AfterCommand(cn) ==
  IF cn.state # <<>> THEN "bstate"
  ELSE IF cn.pend.Name = cCapturePane /\ cn.pend.TargetPane # <<>> /\ cn.pend.EmitPaneSnapshot
    THEN "bsnap"
  ELSE IF cn.pend.Name = cDisplayMessage /\ cn.pend.TargetPane # <<>>
          /\ parsePaneCursorOutput(cn.ev.Output).ok
    THEN "bcursor"
  ELSE "recv"

AfterState(cn) == AfterCommand([cn EXCEPT !.state = <<>>])

\* Hub.shiftPending: [p, rest]
shiftPending(q) ==
  IF Len(q) = 0 THEN [p |-> NoPending, rest |-> q]
  ELSE [p |-> q[1], rest |-> Tail(q)]

\* a Command event is received: shiftPending, then the awaiter is signalled
\* without blocking
ConsumeCommand(g) ==
  /\ cons[g].pc = "recv"
  /\ events[g] # <<>>
  /\ Head(events[g]).kind = "Command"
  /\ LET e == Head(events[g])
         sh == shiftPending(pending)
     IN /\ events' = [events EXCEPT ![g] = Tail(@)]
        /\ pending' = sh.rest
        /\ cons' = [cons EXCEPT ![g] = [pc |-> "apply", ev |-> e, pend |-> sh.p,
                                        state |-> <<>>]]
        /\ cap' = IF sh.p.Wait # 0 /\ cap[sh.p.Wait].done = <<>>
                    THEN [cap EXCEPT ![sh.p.Wait].done =
                            <<[Success |-> e.Success, Output |-> e.Output]>>]
                    ELSE cap
  /\ UNCHANGED <<fn, sp, targetSession, tmuxBound, mgr, stdin, pipe, written, parser, pclosed,
                 model, clients, outbox, oclosed, removals, sess, sync, nreq>>

\* the model is replaced by the records of the response
ConsumeApplyReplace(g) ==
  /\ cons[g].pc = "apply"
  /\ LET r == applyOutputLines(newModelState, cons[g].ev.Output) IN
     /\ model' = r.m
     /\ cons' = [cons EXCEPT ![g].pc = "bcmd",
                             ![g].state = IF r.updated THEN <<snapshot(r.m)>> ELSE <<>>]
  /\ UNCHANGED <<fn, sp, targetSession, tmuxBound, mgr, stdin, pipe, written, parser, events,
                 pclosed, pending, clients, outbox, oclosed, removals, sess, sync,
                 cap, nreq>>

\* the snapshot is taken before the lines are applied
ConsumeApplySnapshotFirst(g) ==
  /\ cons[g].pc = "apply"
  /\ LET r == applyOutputLines(model, cons[g].ev.Output) IN
     /\ model' = r.m
     /\ cons' = [cons EXCEPT ![g].pc = "bcmd",
                             ![g].state = IF r.updated THEN <<snapshot(model)>> ELSE <<>>]
  /\ UNCHANGED <<fn, sp, targetSession, tmuxBound, mgr, stdin, pipe, written, parser, events,
                 pclosed, pending, clients, outbox, oclosed, removals, sess, sync,
                 cap, nreq>>

\* under the lock: applyOutputLines, and the snapshot if the model changed
ConsumeApply(g) ==
  /\ cons[g].pc = "apply"
  /\ LET r == applyOutputLines(model, cons[g].ev.Output) IN
     /\ model' = r.m
     /\ cons' = [cons EXCEPT ![g].pc = "bcmd",
                             ![g].state = IF r.updated THEN <<snapshot(r.m)>> ELSE <<>>]
  /\ UNCHANGED <<fn, sp, targetSession, tmuxBound, mgr, stdin, pipe, written, parser, events,
                 pclosed, pending, clients, outbox, oclosed, removals, sess, sync,
                 cap, nreq>>

\* broadcast(tmux_command)
ConsumeBroadcastCommand(g) ==
  /\ cons[g].pc = "bcmd"
  /\ broadcast([T |-> "tmux_command", CommandID |-> cons[g].ev.tok,
                Success |-> cons[g].ev.Success, Output |-> cons[g].ev.Output])
  /\ cons' = [cons EXCEPT ![g].pc = AfterCommand(cons[g])]
  /\ UNCHANGED <<fn, sp, targetSession, tmuxBound, mgr, stdin, pipe, written, parser, events,
                 pclosed, model, pending, clients, oclosed, sess, sync, cap, nreq>>

\* broadcast(tmux_state) with the snapshot taken by ConsumeApply
ConsumeBroadcastState(g) ==
  /\ cons[g].pc = "bstate"
  /\ broadcast([T |-> "tmux_state", State |-> cons[g].state[1]])
  /\ cons' = [cons EXCEPT ![g].pc = AfterState(cons[g])]
  /\ UNCHANGED <<fn, sp, targetSession, tmuxBound, mgr, stdin, pipe, written, parser, events,
                 pclosed, model, pending, clients, oclosed, sess, sync, cap, nreq>>

\* broadcast(pane_snapshot)
ConsumeBroadcastSnapshot(g) ==
  /\ cons[g].pc = "bsnap"
  /\ broadcast([T |-> "pane_snapshot", PaneID |-> cons[g].pend.TargetPane,
                Data |-> JoinLines(cons[g].ev.Output)])
  /\ cons' = [cons EXCEPT ![g].pc = "recv"]
  /\ UNCHANGED <<fn, sp, targetSession, tmuxBound, mgr, stdin, pipe, written, parser, events,
                 pclosed, model, pending, clients, oclosed, sess, sync, cap, nreq>>

\* broadcast(pane_cursor)
ConsumeBroadcastCursor(g) ==
  /\ cons[g].pc = "bcursor"
  /\ broadcast([T |-> "pane_cursor", PaneID |-> cons[g].pend.TargetPane,
                X |-> parsePaneCursorOutput(cons[g].ev.Output).X,
                Y |-> parsePaneCursorOutput(cons[g].ev.Output).Y])
  /\ cons' = [cons EXCEPT ![g].pc = "recv"]
  /\ UNCHANGED <<fn, sp, targetSession, tmuxBound, mgr, stdin, pipe, written, parser, events,
                 pclosed, model, pending, clients, oclosed, sess, sync, cap, nreq>>

\* a Notification event is received
ConsumeNotification(g) ==
  /\ cons[g].pc = "recv"
  /\ events[g] # <<>>
  /\ Head(events[g]).kind = "Notification"
  /\ events' = [events EXCEPT ![g] = Tail(@)]
  /\ cons' = [cons EXCEPT ![g] = [pc |-> "bnote", ev |-> Head(events[g]),
                                  pend |-> NoPending, state |-> <<>>]]
  /\ UNCHANGED <<fn, sp, targetSession, tmuxBound, mgr, stdin, pipe, written, parser, pclosed,
                 model, pending, clients, outbox, oclosed, removals, sess, sync,
                 cap, nreq>>

\* broadcast(pane_output) for output and extended-output with a pane id,
\* broadcast(tmux_notification) otherwise
ConsumeBroadcastNotification(g) ==
  /\ cons[g].pc = "bnote"
  /\ \E m \in {noteEnvelope(cons[g].ev.n)} :
       /\ broadcast(m)
       /\ sess' = [c \in Clients |->
                     IF m.T = "pane_output" /\ c \in clients /\ Len(outbox[c]) < OutboxCap
                       THEN [sess[c] EXCEPT !.outs =
                               Append(@, [pane |-> m.PaneID, seq |-> cons[g].ev.seq,
                                          data |-> m.Data])]
                       ELSE sess[c]]
  /\ cons' = [cons EXCEPT ![g].pc = "recv"]
  /\ UNCHANGED <<fn, sp, targetSession, tmuxBound, mgr, stdin, pipe, written, parser, events,
                 pclosed, model, pending, clients, oclosed, sync, cap, nreq>>

\* ------------------------------------------------------------------------
\* Hub.CapturePaneContent / runCommandAndWait
\* ------------------------------------------------------------------------
\* Hub.removePending: the first entry whose Wait is the channel goes
RECURSIVE removePending(_, _)
removePending(q, done) ==
  IF q = <<>> THEN <<>>
  ELSE IF Head(q).Wait = done THEN Tail(q)
  ELSE <<Head(q)>> \o removePending(Tail(q), done)

\* CapturePaneContent up to the append of the pending entry
CaptureStart(k, paneID, withEscapes) ==
  /\ cap[k].pc = "idle"
  /\ IF TrimSpace(paneID) = <<>>
       THEN /\ cap' = [cap EXCEPT ![k].pc = "failed", ![k].res = "pane id is required"]
            /\ UNCHANGED <<pending, nreq>>
       ELSE LET argv == captureArgv(TrimSpace(paneID), withEscapes) IN
            /\ nreq < MaxReq
            /\ pending' = Append(pending, [pendingFromArgv(argv) EXCEPT
                                             !.Wait = k, !.EmitPaneSnapshot = FALSE,
                                             !.tok = nreq + 1])
            /\ nreq' = nreq + 1
            /\ cap' = [cap EXCEPT ![k].pc = "registered", ![k].argv = argv,
                                  ![k].tok = nreq + 1]
  /\ UNCHANGED <<fn, sp, targetSession, tmuxBound, mgr, stdin, pipe, written, parser, events,
                 pclosed, cons, model, clients, outbox, oclosed, removals, sess, sync>>

\* runCommandAndWait: Send, or removePending and the error
CaptureSend(k) ==
  /\ cap[k].pc = "registered"
  /\ IF tmuxBound /\ SendErr = ""
       THEN /\ Wrote(cap[k].tok, "capture", encodeArgvCommand(cap[k].argv).line)
            /\ cap' = [cap EXCEPT ![k].pc = "waiting"]
            /\ UNCHANGED pending
       ELSE /\ pending' = removePending(pending, k)
            /\ cap' = [cap EXCEPT ![k].pc = "failed",
                                  ![k].res = IF ~tmuxBound THEN "tmux backend unavailable"
                                             ELSE SendErr]
            /\ UNCHANGED <<written, stdin>>
  /\ UNCHANGED <<fn, sp, targetSession, tmuxBound, mgr, pipe, parser, events, pclosed, cons,
                 model, clients, outbox, oclosed, removals, sess, sync, nreq>>

\* the select receives from done; CapturePaneContent joins the output
CaptureReturn(k) ==
  /\ cap[k].pc = "waiting"
  /\ cap[k].done # <<>>
  /\ cap' = [cap EXCEPT ![k].done = <<>>,
                        ![k].pc = IF cap[k].done[1].Success THEN "returned" ELSE "failed",
                        ![k].res = IF cap[k].done[1].Success
                                     THEN JoinLines(cap[k].done[1].Output)
                                     ELSE IF <<"-", "e">> \in Range(cap[k].argv)
                                       THEN "capture-pane with escapes failed"
                                       ELSE "capture-pane without escapes failed"]
  /\ UNCHANGED <<fn, sp, targetSession, tmuxBound, mgr, stdin, pipe, written, parser, events,
                 pclosed, cons, model, pending, clients, outbox, oclosed, removals,
                 sess, sync, nreq>>

\* the timer is only honoured while the entry of the call is still pending
CaptureTimeoutIfPending(k) ==
  /\ cap[k].pc = "waiting"
  /\ \E i \in DOMAIN pending : pending[i].Wait = k
  /\ cap' = [cap EXCEPT ![k].pc = "failed",
                        ![k].res = "timed out waiting for tmux response"]
  /\ UNCHANGED <<fn, sp, targetSession, tmuxBound, mgr, stdin, pipe, written, parser, events,
                 pclosed, cons, model, pending, clients, outbox, oclosed, removals,
                 sess, sync, nreq>>

\* the select takes the timer
CaptureTimeout(k) ==
  /\ cap[k].pc = "waiting"
  /\ cap' = [cap EXCEPT ![k].pc = "failed",
                        ![k].res = "timed out waiting for tmux response"]
  /\ UNCHANGED <<fn, sp, targetSession, tmuxBound, mgr, stdin, pipe, written, parser, events,
                 pclosed, cons, model, pending, clients, outbox, oclosed, removals,
                 sess, sync, nreq>>

\* ------------------------------------------------------------------------
\* Specification
\* ------------------------------------------------------------------------
Next ==
  \/ BindTmux
  \/ MgrStart
  \/ MainSync
  \/ MgrLaunch
  \/ ProcRespond
  \/ ProcExit
  \/ MgrExit
  \/ MgrBackoff
  \/ \E r \in 1..(MaxRestarts + 1) : ReaderFeed(r)
  \/ RestartSwap
  \/ RestartClose
  \/ RestartClear
  \/ RestartState
  \/ RestartRestarted
  \/ RestartSync
  \/ \E k \in SyncIds : SyncTry(k)
  \/ \E k \in SyncIds : SyncRegister(k)
  \/ \E c \in Clients : ClientAdd(c)
  \/ \E c \in Clients : ClientInit(c)
  \/ \E c \in Clients, m \in AllMsgs : ClientRecv(c, m)
  \/ \E c \in Clients : ClientRegister(c)
  \/ \E c \in Clients : ClientDisconnect(c)
  \/ \E c \in Clients : RemoveClient(c)
  \/ \E c \in Clients : WriteLoop(c)
  \/ \E g \in Gens : ConsumeCommand(g)
  \/ \E g \in Gens : ConsumeApply(g)
  \/ \E g \in Gens : ConsumeBroadcastCommand(g)
  \/ \E g \in Gens : ConsumeBroadcastState(g)
  \/ \E g \in Gens : ConsumeBroadcastSnapshot(g)
  \/ \E g \in Gens : ConsumeBroadcastCursor(g)
  \/ \E k \in CapIds, e \in BOOLEAN : CaptureStart(k, pane1, e)
  \/ \E k \in CapIds : CaptureSend(k)
  \/ \E k \in CapIds : CaptureReturn(k)
  \/ \E k \in CapIds : CaptureTimeout(k)

Spec == Init /\ [][Next]_vars

\* ------------------------------------------------------------------------
\* The command pipeline of client sessions: every kind of message, the
\* supervisor starting and losing its subprocess; responses are not read
\* ------------------------------------------------------------------------
PolicyMsgs == {mUpper, mNewline, mKillServer, mTwoWords, mEmptyArgv, mEmptyName,
               mOtherType, mBadJSON}

NextPolicy ==
  \/ BindTmux
  \/ MgrStart
  \/ MgrLaunch
  \/ ProcExit
  \/ MgrExit
  \/ \E c \in Clients : ClientAdd(c)
  \/ \E c \in Clients : ClientInit(c)
  \/ \E c \in Clients, m \in PolicyMsgs : ClientRecv(c, m)
  \/ \E c \in Clients : ClientRegister(c)
  \/ \E c \in Clients : ClientDisconnect(c)
  \/ \E c \in Clients : WriteLoop(c)

SpecPolicy == InitWith("dev") /\ [][NextPolicy]_vars

\* ------------------------------------------------------------------------
\* Command correlation: two client sessions and the startup state sync send
\* concurrently to one subprocess that answers in order
\* ------------------------------------------------------------------------
FifoMsgs == {mSendKeys}

NextFifo ==
  \/ MgrLaunch
  \/ ProcRespond
  \/ \E r \in 1..(MaxRestarts + 1) : ReaderFeed(r)
  \/ \E k \in SyncIds : SyncTry(k)
  \/ \E k \in SyncIds : SyncRegister(k)
  \/ \E c \in Clients : ClientAdd(c)
  \/ \E c \in Clients : ClientInit(c)
  \/ \E c \in Clients, m \in FifoMsgs : ClientRecv(c, m)
  \/ \E c \in Clients : ClientRegister(c)
  \/ \E c \in Clients : RemoveClient(c)
  \/ \E c \in Clients : WriteLoop(c)
  \/ \E g \in Gens : ConsumeCommand(g)
  \/ \E g \in Gens : ConsumeApply(g)
  \/ \E g \in Gens : ConsumeBroadcastCommand(g)
  \/ \E g \in Gens : ConsumeBroadcastState(g)

SpecFifo == InitMain("dev") /\ [][NextFifo]_vars

\* ------------------------------------------------------------------------
\* Capture: CapturePaneContent is called while the startup state sync is
\* under way; a client session listens
\* ------------------------------------------------------------------------
NextCapture ==
  \/ MgrLaunch
  \/ ProcRespond
  \/ \E r \in 1..(MaxRestarts + 1) : ReaderFeed(r)
  \/ \E k \in SyncIds : SyncTry(k)
  \/ \E k \in SyncIds : SyncRegister(k)
  \/ ClientAdd("c1")
  \/ ClientInit("c1")
  \/ RemoveClient("c1")
  \/ WriteLoop("c1")
  \/ \E g \in Gens : ConsumeCommand(g)
  \/ \E g \in Gens : ConsumeApply(g)
  \/ \E g \in Gens : ConsumeBroadcastCommand(g)
  \/ \E g \in Gens : ConsumeBroadcastState(g)
  \/ \E k \in CapIds, e \in BOOLEAN : CaptureStart(k, pane1, e)
  \/ \E k \in CapIds : CaptureSend(k)
  \/ \E k \in CapIds : CaptureReturn(k)
  \/ \E k \in CapIds : CaptureTimeout(k)

SpecCapture == InitMain("dev") /\ [][NextCapture]_vars

\* ------------------------------------------------------------------------
\* Restart: after the startup state sync the subprocess exits, the supervisor
\* runs OnRestart and relaunches; client sessions attach and listen, slow
\* ones are removed; the new subprocess has not answered yet
\* ------------------------------------------------------------------------
NextRestart ==
  \/ MgrLaunch
  \/ ProcExit
  \/ MgrExit
  \/ MgrBackoff
  \/ RestartSwap
  \/ RestartClose
  \/ RestartClear
  \/ RestartState
  \/ RestartRestarted
  \/ RestartSync
  \/ \E k \in SyncIds : SyncTry(k)
  \/ \E k \in SyncIds : SyncRegister(k)
  \/ \E c \in Clients : ClientAdd(c)
  \/ \E c \in Clients : ClientInit(c)
  \/ \E c \in Clients : RemoveClient(c)
  \/ \E c \in Clients : WriteLoop(c)

SpecRestart == InitSynced("dev") /\ [][NextRestart]_vars

\* ------------------------------------------------------------------------
\* Resync: the subprocess exits while the startup state sync is under way;
\* responses are read and consumed across the restart; one client session
\* attaches and listens
\* ------------------------------------------------------------------------
NextResync ==
  \/ MgrLaunch
  \/ ProcRespond
  \/ ProcExit
  \/ MgrExit
  \/ MgrBackoff
  \/ \E r \in 1..(MaxRestarts + 1) : ReaderFeed(r)
  \/ RestartSwap
  \/ RestartClose
  \/ RestartClear
  \/ RestartState
  \/ RestartRestarted
  \/ RestartSync
  \/ \E k \in SyncIds : SyncTry(k)
  \/ \E k \in SyncIds : SyncRegister(k)
  \/ ClientAdd("c1")
  \/ ClientInit("c1")
  \/ RemoveClient("c1")
  \/ WriteLoop("c1")
  \/ \E g \in Gens : ConsumeCommand(g)
  \/ \E g \in Gens : ConsumeApply(g)
  \/ \E g \in Gens : ConsumeBroadcastCommand(g)
  \/ \E g \in Gens : ConsumeBroadcastState(g)

SpecResync == InitMain("dev") /\ [][NextResync]_vars

\* ------------------------------------------------------------------------
\* Broadcast: the response to the startup state sync is consumed and broadcast
\* to client sessions that attach and may stall; scheduled removals run
\* ------------------------------------------------------------------------
NextBroadcast ==
  \/ MgrLaunch
  \/ ProcRespond
  \/ \E r \in 1..(MaxRestarts + 1) : ReaderFeed(r)
  \/ \E k \in SyncIds : SyncTry(k)
  \/ \E k \in SyncIds : SyncRegister(k)
  \/ \E c \in Clients : ClientAdd(c)
  \/ \E c \in Clients : ClientInit(c)
  \/ \E c \in Clients : RemoveClient(c)
  \/ \E c \in Clients : WriteLoop(c)
  \/ \E g \in Gens : ConsumeCommand(g)
  \/ \E g \in Gens : ConsumeApply(g)
  \/ \E g \in Gens : ConsumeBroadcastCommand(g)
  \/ \E g \in Gens : ConsumeBroadcastState(g)

\* a goroutine started with "go h.removeClient(c)" is eventually scheduled
SpecBroadcast ==
  /\ InitMain("dev")
  /\ [][NextBroadcast]_vars
  /\ \A c \in Clients : WF_vars(RemoveClient(c))

\* ------------------------------------------------------------------------
\* Events: after the startup state sync, both client sessions attach and
\* session c1 sends list-windows, capture-pane and display-message; every kind
\* of envelope of a Command event is broadcast
\* ------------------------------------------------------------------------
EventMsgs == {mListWindows, mCapture, mDisplay}

NextEvents ==
  \/ ProcRespond
  \/ \E r \in 1..(MaxRestarts + 1) : ReaderFeed(r)
  \/ \E c \in Clients : ClientAdd(c)
  \/ \E c \in Clients : ClientInit(c)
  \/ \E m \in EventMsgs : ClientRecv("c1", m)
  \/ ClientRegister("c1")
  \/ \E c \in Clients : RemoveClient(c)
  \/ \E c \in Clients : WriteLoop(c)
  \/ \E g \in Gens : ConsumeCommand(g)
  \/ \E g \in Gens : ConsumeApply(g)
  \/ \E g \in Gens : ConsumeBroadcastCommand(g)
  \/ \E g \in Gens : ConsumeBroadcastState(g)
  \/ \E g \in Gens : ConsumeBroadcastSnapshot(g)
  \/ \E g \in Gens : ConsumeBroadcastCursor(g)

SpecEvents == InitSynced("dev") /\ [][NextEvents]_vars

\* ------------------------------------------------------------------------
\* Timeout: CapturePaneContent is called after the startup state sync; the
\* subprocess may exit and the restart handler run while the call waits; a
\* client session that reads nothing listens. The call's goroutine is
\* scheduled, and the timer of its select fires when no result has come
\* ------------------------------------------------------------------------
NextTimeout ==
  \/ MgrLaunch
  \/ ProcRespond
  \/ ProcExit
  \/ MgrExit
  \/ MgrBackoff
  \/ \E r \in 1..(MaxRestarts + 1) : ReaderFeed(r)
  \/ RestartSwap
  \/ RestartClose
  \/ RestartClear
  \/ RestartState
  \/ RestartRestarted
  \/ RestartSync
  \/ ClientAdd("c1")
  \/ ClientInit("c1")
  \/ RemoveClient("c1")
  \/ \E g \in Gens : ConsumeCommand(g)
  \/ \E g \in Gens : ConsumeApply(g)
  \/ \E g \in Gens : ConsumeBroadcastCommand(g)
  \/ \E e \in BOOLEAN : CaptureStart(1, pane1, e)
  \/ CaptureSend(1)
  \/ CaptureReturn(1)
  \/ CaptureTimeout(1)

SpecTimeout ==
  /\ InitSynced("dev")
  /\ [][NextTimeout]_vars
  /\ WF_vars(CaptureSend(1))
  /\ WF_vars(CaptureReturn(1) \/ CaptureTimeout(1))

\* ------------------------------------------------------------------------
\* StreamParser fed by one goroutine, its consumer receiving every event
\* ------------------------------------------------------------------------
\* StreamParser.FeedLine, with the receive of the events it sends
Feed(line) ==
  /\ Len(sp.fed) < MaxLines
  /\ IF sp.closed
       THEN sp' = [sp EXCEPT !.fed = Append(@, line),
                             !.prev = <<[current |-> sp.current, cmd |-> sp.cmd]>>,
                             !.evs = <<>>]
       ELSE \E r \in {FeedLine([current |-> sp.current, cmd |-> sp.cmd], line)} :
              sp' = [sp EXCEPT !.fed = Append(@, line),
                               !.current = r.current,
                               !.cmd = r.cmd,
                               !.sent = @ \o r.evs,
                               !.recv = @ \o r.evs,
                               !.prev = <<[current |-> sp.current, cmd |-> sp.cmd]>>,
                               !.evs = r.evs]
  /\ UNCHANGED <<hubVars, fn>>

NextParser == \E line \in ParserLines : Feed(line)

SpecParser == InitWith("dev") /\ [][NextParser]_vars

\* ------------------------------------------------------------------------
\* StreamParser with concurrent callers: one goroutine feeds lines, two call
\* Close, a consumer receives from Events(). Every step is one access to the
\* mutex, to the channel or to Parser.current; a panic ends the program
\* ------------------------------------------------------------------------
StreamLines == {lBeginA, lText, lEndB}

\* where a caller goes when its emit has returned
AfterEmit(t) == IF t = "feed" THEN "idle" ELSE "fclear"

\* the caller t goes on to emit evs, or past the emit when there is none
Emitting(t, evs) ==
  [sp.thr EXCEPT ![t].pc = IF evs = <<>> THEN AfterEmit(t) ELSE "emit", ![t].q = evs]

\* StreamParser.FeedLine: the read of closed under the mutex
FeedEnter(line) ==
  /\ sp.panic = ""
  /\ sp.thr["feed"].pc = "idle"
  /\ Len(sp.fed) < MaxLines
  /\ sp.mu = ""
  /\ IF sp.closed
       THEN sp' = [sp EXCEPT !.fed = Append(@, line), !.late = @ + 1]
       ELSE sp' = [sp EXCEPT !.fed = Append(@, line),
                             !.thr["feed"].pc = "parse",
                             !.thr["feed"].line = line]
  /\ UNCHANGED <<hubVars, fn>>

\* Parser.FeedLine up to the use of the active block: the paths that read
\* p.current once run to their emit
FeedParse ==
  /\ sp.panic = ""
  /\ sp.thr["feed"].pc = "parse"
  /\ \E line \in {sp.thr["feed"].line} :
       IF sp.current # <<>> /\ parseEndLine(line).ok /\ parseEndLine(line).err = ""
         THEN sp' = [sp EXCEPT !.thr["feed"].pc = "finish"]
       ELSE IF /\ sp.current # <<>>
               /\ ~parseEndLine(line).ok
               /\ ~malformedControlBoundary(line)
         THEN sp' = [sp EXCEPT !.thr["feed"].pc = "line"]
       ELSE \E r \in {FeedLine([current |-> sp.current, cmd |-> sp.cmd], line)} :
              sp' = [sp EXCEPT !.current = r.current,
                               !.cmd = r.cmd,
                               !.thr = Emitting("feed", r.evs)]
  /\ UNCHANGED <<hubVars, fn>>

\* p.cb.OnCommandLine(*p.current, line): p.current is read again
FeedDeref ==
  /\ sp.panic = ""
  /\ sp.thr["feed"].pc = "line"
  /\ IF sp.current = <<>>
       THEN sp' = [sp EXCEPT !.panic = "nil pointer dereference"]
       ELSE sp' = [sp EXCEPT !.cmd = onCommandLine(sp.cmd, sp.thr["feed"].line),
                             !.thr["feed"].pc = "idle"]
  /\ UNCHANGED <<hubVars, fn>>

\* finishBlock: if p.current == nil
FeedFinish ==
  /\ sp.panic = ""
  /\ sp.thr["feed"].pc = "finish"
  /\ IF sp.current = <<>>
       THEN sp' = [sp EXCEPT !.thr = Emitting("feed",
                      finishBlock([current |-> sp.current, cmd |-> sp.cmd],
                                  parseEndLine(sp.thr["feed"].line).hdr,
                                  parseEndLine(sp.thr["feed"].line).success,
                                  sp.thr["feed"].line).evs)]
       ELSE sp' = [sp EXCEPT !.thr["feed"].pc = "finish2"]
  /\ UNCHANGED <<hubVars, fn>>

\* finishBlock: begin := *p.current, p.current = nil and the callbacks
FeedFinish2 ==
  /\ sp.panic = ""
  /\ sp.thr["feed"].pc = "finish2"
  /\ IF sp.current = <<>>
       THEN sp' = [sp EXCEPT !.panic = "nil pointer dereference"]
       ELSE \E r \in {finishBlock([current |-> sp.current, cmd |-> sp.cmd],
                                   parseEndLine(sp.thr["feed"].line).hdr,
                                   parseEndLine(sp.thr["feed"].line).success,
                                   sp.thr["feed"].line)} :
              sp' = [sp EXCEPT !.current = r.current,
                               !.cmd = r.cmd,
                               !.thr = Emitting("feed", r.evs)]
  /\ UNCHANGED <<hubVars, fn>>

\* emit: s.mu.Lock() and the read of closed
EmitLock(t) ==
  /\ sp.panic = ""
  /\ sp.thr[t].pc = "emit"
  /\ sp.mu = ""
  /\ IF sp.closed
       THEN sp' = [sp EXCEPT !.thr = Emitting(t, Tail(sp.thr[t].q))]
       ELSE sp' = [sp EXCEPT !.mu = t, !.thr[t].pc = "send"]
  /\ UNCHANGED <<hubVars, fn>>

\* emit: s.events <- ev with the mutex held, then the deferred Unlock
EmitSend(t) ==
  /\ sp.panic = ""
  /\ sp.thr[t].pc = "send"
  /\ Len(sp.ch) < EventCap
  /\ IF sp.nclose > 0
       THEN sp' = [sp EXCEPT !.panic = "send on closed channel"]
       ELSE sp' = [sp EXCEPT !.ch = Append(@, sp.thr[t].q[1]),
                             !.sent = Append(@, sp.thr[t].q[1]),
                             !.mu = "",
                             !.thr = Emitting(t, Tail(sp.thr[t].q))]
  /\ UNCHANGED <<hubVars, fn>>

\* the consumer receives from Events()
StreamRecv ==
  /\ sp.panic = ""
  /\ sp.ch # <<>>
  /\ sp' = [sp EXCEPT !.ch = Tail(@), !.recv = Append(@, Head(sp.ch))]
  /\ UNCHANGED <<hubVars, fn>>

\* Close: the first read of closed under the mutex
CloseEnter(t) ==
  /\ sp.panic = ""
  /\ sp.thr[t].pc = "idle"
  /\ sp.calls < MaxCloseCalls
  /\ sp.mu = ""
  /\ IF sp.closed
       THEN sp' = [sp EXCEPT !.calls = @ + 1, !.ret = @ + 1]
       ELSE sp' = [sp EXCEPT !.calls = @ + 1, !.thr[t].pc = "finish"]
  /\ UNCHANGED <<hubVars, fn>>

\* Parser.Finish: if p.current != nil, emitError
CloseFinish(t) ==
  /\ sp.panic = ""
  /\ sp.thr[t].pc = "finish"
  /\ IF sp.current # <<>>
       THEN sp' = [sp EXCEPT !.thr = Emitting(t,
                      <<ParseError(<<>>, "unterminated command block at end of stream")>>)]
       ELSE sp' = [sp EXCEPT !.thr[t].pc = "lock"]
  /\ UNCHANGED <<hubVars, fn>>

\* Parser.Finish: p.current = nil
CloseFinishClear(t) ==
  /\ sp.panic = ""
  /\ sp.thr[t].pc = "fclear"
  /\ sp' = [sp EXCEPT !.current = <<>>, !.thr[t].pc = "lock"]
  /\ UNCHANGED <<hubVars, fn>>

\* the channel is closed without a second look at closed
CloseLockUnchecked(t) ==
  /\ sp.panic = ""
  /\ sp.thr[t].pc = "lock"
  /\ sp.mu = ""
  /\ IF sp.nclose > 0
       THEN sp' = [sp EXCEPT !.panic = "close of closed channel"]
       ELSE sp' = [sp EXCEPT !.closed = TRUE, !.nclose = @ + 1, !.ret = @ + 1,
                             !.thr[t].pc = "idle"]
  /\ UNCHANGED <<hubVars, fn>>

\* Close: the second read of closed under the mutex, closed = true and
\* close(s.events)
CloseLock(t) ==
  /\ sp.panic = ""
  /\ sp.thr[t].pc = "lock"
  /\ sp.mu = ""
  /\ IF sp.closed
       THEN sp' = [sp EXCEPT !.ret = @ + 1, !.thr[t].pc = "idle"]
       ELSE IF sp.nclose > 0
         THEN sp' = [sp EXCEPT !.panic = "close of closed channel"]
         ELSE sp' = [sp EXCEPT !.closed = TRUE, !.nclose = @ + 1, !.ret = @ + 1,
                               !.thr[t].pc = "idle"]
  /\ UNCHANGED <<hubVars, fn>>

NextStream ==
  \/ \E line \in StreamLines : FeedEnter(line)
  \/ FeedParse
  \/ FeedDeref
  \/ FeedFinish
  \/ FeedFinish2
  \/ \E t \in Callers : EmitLock(t)
  \/ \E t \in Callers : EmitSend(t)
  \/ StreamRecv
  \/ \E t \in Closers : CloseEnter(t)
  \/ \E t \in Closers : CloseFinish(t)
  \/ \E t \in Closers : CloseFinishClear(t)
  \/ \E t \in Closers : CloseLock(t)

SpecStream == InitWith("dev") /\ [][NextStream]_vars

\* ------------------------------------------------------------------------
\* Supervisor: Run with launch failures, exits, read errors and cancellation;
\* the startup state sync and one CapturePaneContent call use Send
\* ------------------------------------------------------------------------
NextSupervisor ==
  \/ Cancel
  \/ MgrStop
  \/ MgrLaunchFail
  \/ MgrLaunch
  \/ ProcExit
  \/ ProcHangup
  \/ OrphanExit
  \/ MgrCancelWait
  \/ MgrReadError
  \/ MgrExit
  \/ MgrBackoff
  \/ RestartSwap
  \/ RestartClose
  \/ RestartClear
  \/ RestartState
  \/ RestartRestarted
  \/ RestartSync
  \/ SyncTry(0)
  \/ SyncRegister(0)
  \/ CaptureStart(1, pane1, FALSE)
  \/ CaptureSend(1)
  \/ CaptureTimeout(1)

SpecSupervisor == InitMain("dev") /\ [][NextSupervisor]_vars

\* ------------------------------------------------------------------------
\* Outbox: client sessions attach, send a message that is rejected and
\* disconnect while the restarts of the subprocess broadcast to them
\* ------------------------------------------------------------------------
NextOutbox ==
  \/ ProcExit
  \/ MgrExit
  \/ RestartSwap
  \/ RestartClose
  \/ RestartClear
  \/ RestartState
  \/ RestartRestarted
  \/ RestartSync
  \/ \E c \in Clients : ClientAdd(c)
  \/ \E c \in Clients : ClientInit(c)
  \/ \E c \in Clients : ClientRecv(c, mKillServer)
  \/ \E c \in Clients : ClientDisconnect(c)
  \/ \E c \in Clients : RemoveClient(c)
  \/ \E c \in Clients : WriteLoop(c)

SpecOutbox == InitSynced("dev") /\ [][NextOutbox]_vars

\* ------------------------------------------------------------------------
\* Output: the subprocesses write %output lines for two panes, the readers
\* deliver them, the consumers broadcast them to a client session;
\* the subprocess exits and is relaunched
\* ------------------------------------------------------------------------
pane2 == <<"%", "2">>

\* the escaped bytes e2 and 94 80 of U+2500
vLead == <<"\\", "3", "4", "2">>

vRest == <<"\\", "2", "2", "4", "\\", "2", "0", "0">>

NextOutput ==
  \/ \E paneID \in {pane1, pane2}, value \in {vLead, vRest} : ProcOutput(paneID, value)
  \/ ProcExit
  \/ MgrExit
  \/ RestartSwap
  \/ RestartClose
  \/ RestartClear
  \/ RestartState
  \/ RestartRestarted
  \/ RestartSync
  \/ MgrBackoff
  \/ MgrLaunch
  \/ \E r \in 1..(MaxRestarts + 1) : ReaderFeed(r)
  \/ ClientAdd("c1")
  \/ ClientInit("c1")
  \/ RemoveClient("c1")
  \/ WriteLoop("c1")
  \/ \E g \in Gens : ConsumeNotification(g)
  \/ \E g \in Gens : ConsumeBroadcastNotification(g)

SpecOutput == InitSynced("dev") /\ [][NextOutput]_vars

\* the goroutine of Run is scheduled: a select with ctx.Done() ready and a
\* test of ctx.Err() are eventually executed
SpecCancel ==
  /\ InitMain("dev")
  /\ [][NextSupervisor]_vars
  /\ WF_vars(MgrStop)
  /\ WF_vars(MgrCancelWait)

\* ------------------------------------------------------------------------
\* Backoff: a Manager made by NewManager from any backoff base and cap and
\* without an OnRestart callback runs, relaunches and is cancelled
\* ------------------------------------------------------------------------
BackoffBases == {-1, 0, 300, 3000, 20000}

BackoffMaxes == {-1, 0, 1000, 10000, 30000}

NextBackoff ==
  \/ Cancel
  \/ MgrStop
  \/ MgrLaunchFail
  \/ MgrLaunch
  \/ ProcExit
  \/ ProcHangup
  \/ OrphanExit
  \/ MgrCancelWait
  \/ MgrReadError
  \/ MgrExit
  \/ MgrBackoff

SpecBackoff ==
  /\ \E b \in BackoffBases, m \in BackoffMaxes :
       InitRun("dev", [BackoffBase |-> b, BackoffMax |-> m, OnRestart |-> FALSE])
  /\ [][NextBackoff]_vars

\* ------------------------------------------------------------------------
\* Properties of the command pipeline
\* ------------------------------------------------------------------------
\* the command lines the subprocess reads out of the bytes of one Send
LinesOf(w) == SplitLines(w.bytes, <<>>)

RECURSIVE LinesWritten(_)
LinesWritten(ws) ==
  IF ws = <<>> THEN 0 ELSE Len(LinesOf(Head(ws))) + LinesWritten(Tail(ws))

\* a client session is between a successful Send and registerPending
Sending(c) == sess[c].pc = "sent"

\* this step is readLoop of c answering a message with an error
Rejects(c) ==
  /\ sess[c].pc = "read"
  /\ sess'[c].pc = "read"
  /\ sess'[c].n = sess[c].n + 1

IsError(e) == e.T = "error"

\* C5: every command line that a client message makes the subprocess read
\* has a command name of the allow-set.
C5_PolicyGate ==
  \A i \in DOMAIN written :
    written[i].src \in Clients =>
      \A j \in DOMAIN LinesOf(written[i]) :
        commandName(LinesOf(written[i])[j]) \in Default

\* C6 as stated: a rejected message puts one error envelope in the outbox of
\* the client that sent it, and changes no other outbox, nor the pending FIFO,
\* nor what was written to the subprocess.
C6_RejectAlwaysAnswered ==
  [][\A c \in Clients :
       Rejects(c) =>
         /\ \E e \in {outbox'[c][i] : i \in DOMAIN outbox'[c]} :
              IsError(e) /\ outbox'[c] = Append(outbox[c], e)
         /\ \A d \in Clients \ {c} : outbox'[d] = outbox[d]
         /\ pending' = pending
         /\ written' = written]_vars

\* C6 amended: the error envelope is enqueued exactly when the outbox of the
\* sender is open and has room, and is dropped otherwise; nothing else changes.
C6_RejectIsolated ==
  [][\A c \in Clients :
       Rejects(c) =>
         /\ IF c \in oclosed \/ Len(outbox[c]) >= OutboxCap
              THEN outbox'[c] = outbox[c]
              ELSE /\ Len(outbox'[c]) = Len(outbox[c]) + 1
                   /\ IsError(outbox'[c][Len(outbox'[c])])
                   /\ SubSeq(outbox'[c], 1, Len(outbox[c])) = outbox[c]
         /\ \A d \in Clients \ {c} : outbox'[d] = outbox[d]
         /\ pending' = pending
         /\ written' = written
         /\ stdin' = stdin]_vars

\* a client was answered with an error while another client is attached
C6_Witness ==
  \E c \in Clients : \E d \in Clients \ {c} :
    /\ sess[c].n > 0
    /\ \E i \in DOMAIN outbox[c] : IsError(outbox[c][i])
    /\ d \in clients
    /\ outbox[d] # <<>>

\* C7: when no client session is between Send and registerPending, the
\* subprocess has been given as many command lines as pending entries were
\* appended (no entry is ever removed where this is checked).
C7_OneEntryPerLine ==
  (\A c \in Clients : ~Sending(c)) => LinesWritten(written) = Len(pending)

\* ------------------------------------------------------------------------
\* Properties of command correlation
\* ------------------------------------------------------------------------
\* who wrote the line of request t: a client session, "sync" or "capture"
Sender(t) ==
  IF \E i \in DOMAIN written : written[i].tok = t
    THEN written[CHOOSE i \in DOMAIN written : written[i].tok = t].src
    ELSE "none"

\* the consumer of generation g has received a Command event
Consumed(g) == cons[g].ev # NoEvent

\* C1: the pending entry popped for a Command event is the entry that was
\* created for the line this event answers.
C1_PendingFifoLaw ==
  \A g \in Gens : Consumed(g) => cons[g].pend.tok = cons[g].ev.tok

\* C2: a Command event is never consumed while the sender of the line it
\* answers is still between Send and registerPending.
C2_RegisteredBeforeConsumed ==
  \A g \in Gens :
    Consumed(g) =>
      /\ \A c \in Clients : ~(Sending(c) /\ sess[c].tok = cons[g].ev.tok)
      /\ \A k \in SyncIds : ~(sync[k].pc = "sent" /\ sync[k].tok = cons[g].ev.tok)

\* C3: the entries of client sessions stand in the pending FIFO in the order
\* in which their lines were written to the subprocess.
C3_PendingInWriteOrder ==
  \A i \in DOMAIN pending : \A j \in DOMAIN pending :
    (i < j /\ Sender(pending[i].tok) \in Clients /\ Sender(pending[j].tok) \in Clients)
      => pending[i].tok < pending[j].tok

\* the response block of the capture-pane line that call k sent
OwnOutput(k) ==
  Respond([tok |-> cap[k].tok, line |-> encodeArgvCommand(cap[k].argv).line]).Output

\* C4: when CapturePaneContent returns a string, it is the joined output of
\* the response to the capture-pane line of this call.
C4_CaptureReturnsOwnOutput ==
  \A k \in CapIds : cap[k].pc = "returned" => cap[k].res = JoinLines(OwnOutput(k))

\* ------------------------------------------------------------------------
\* Properties of state envelopes and of the restart
\* ------------------------------------------------------------------------
IsState(e) == e.T = "tmux_state"

IsRestarted(e) == e.T = "tmux_restarted"

emptyState == snapshot(newModelState)

\* C8: with a target session, every tmux_state envelope in an outbox holds
\* only panes of the target session and only windows those panes reference.
C8_StateEnvelopesFiltered ==
  targetSession # "" =>
    \A c \in Clients : \A i \in DOMAIN outbox[c] :
      IsState(outbox[c][i]) =>
        LET st == outbox[c][i].State IN
        /\ \A n \in DOMAIN st.Panes : st.Panes[n].SessionName = targetSession
        /\ \A n \in DOMAIN st.Windows :
             \E q \in DOMAIN st.Panes : st.Panes[q].WindowID = st.Windows[n].ID

\* the step broadcasts envelope m: every client of the set whose outbox has
\* room gets m at the end of its outbox, no other outbox changes
Delivers(m) ==
  \A c \in Clients :
    outbox'[c] = IF c \in clients /\ Len(outbox[c]) < OutboxCap
                   THEN Append(outbox[c], m) ELSE outbox[c]

\* the step puts a tmux_restarted envelope into the outbox of c
GetsRestarted(c) ==
  /\ Len(outbox'[c]) = Len(outbox[c]) + 1
  /\ IsRestarted(outbox'[c][Len(outbox'[c])])

\* Run leaves position pc in this step
Leaves(pc) == mgr.pc = pc /\ mgr'.pc # pc

\* C9: when runOnce has returned the supervisor runs the restart handler, which
\* first replaces the parser and closes the old one, then empties the model
\* and the pending FIFO, then broadcasts the empty tmux_state, then
\* tmux_restarted, and only then starts the state sync of the new generation;
\* tmux_restarted reaches an outbox in no other step.
C9_RestartOrder ==
  [][/\ Leaves("wait") => mgr'.pc = "r_swap"
     /\ parser' # parser => Leaves("r_swap")
     /\ Leaves("r_swap") =>
          /\ mgr'.pc = "r_close"
          /\ parser' = parser + 1
          /\ UNCHANGED <<model, pending, outbox, sync>>
     /\ Leaves("r_close") =>
          /\ mgr'.pc = "r_clear"
          /\ parser - 1 \in pclosed'
          /\ cons'[parser].pc = "recv"
          /\ UNCHANGED <<parser, outbox, sync>>
     /\ Leaves("r_clear") =>
          /\ mgr'.pc = "r_state"
          /\ model' = newModelState
          /\ pending' = <<>>
          /\ UNCHANGED <<parser, outbox, sync>>
     /\ Leaves("r_state") =>
          /\ mgr'.pc = "r_restarted"
          /\ Delivers([T |-> "tmux_state", State |-> emptyState])
          /\ UNCHANGED <<parser, sync>>
     /\ Leaves("r_restarted") =>
          /\ mgr'.pc = "r_sync"
          /\ Delivers([T |-> "tmux_restarted"])
          /\ sync'[parser].pc = "off"
          /\ UNCHANGED parser
     /\ Leaves("r_sync") =>
          /\ mgr'.pc = "backoff"
          /\ sync'[parser].pc = "try"
          /\ UNCHANGED <<parser, outbox>>
     /\ \A k \in SyncIds \ {0} :
          (sync[k].pc = "off" /\ sync'[k].pc # "off") => (Leaves("r_sync") /\ k = parser)
     /\ \A c \in Clients : GetsRestarted(c) => Leaves("r_restarted")]_vars

\* a restart has run to its end: a client holds tmux_restarted while another
\* client is attached, the model and the pending FIFO are empty and the state
\* sync of the new generation is under way
C9_Witness ==
  /\ parser >= 1
  /\ mgr.pc \in {"backoff", "launch"}
  /\ model = newModelState
  /\ pending = <<>>
  /\ sync[parser].pc = "try"
  /\ \E c \in clients : \E d \in clients \ {c} :
       /\ outbox[c] # <<>>
       /\ IsRestarted(outbox[c][Len(outbox[c])])

\* the line of request t was written to the subprocess of run r
WrittenInRun(t, r) ==
  \E i \in DOMAIN written : written[i].tok = t /\ written[i].run = r

\* C10: once a restart has emptied the model, the model gets content only
\* when the response to a line written after that restart is applied.
C10_ModelEmptyUntilResync ==
  [][(/\ parser >= 1
      /\ mgr.pc \notin {"r_close", "r_clear"}
      /\ model' # model
      /\ model' # newModelState)
       => \E g \in Gens : /\ cons[g].pc = "apply"
                           /\ cons'[g].pc # "apply"
                           /\ WrittenInRun(cons[g].ev.tok, parser + 1)]_vars

\* ------------------------------------------------------------------------
\* Properties of the broadcast
\* ------------------------------------------------------------------------
\* this step is one call of Hub.broadcast
Broadcasts ==
  \/ \E g \in Gens : /\ cons[g].pc \in {"bcmd", "bstate", "bsnap", "bcursor"}
                       /\ cons'[g].pc # cons[g].pc
  \/ Leaves("r_state")
  \/ Leaves("r_restarted")

HasRoom(c) == Len(outbox[c]) < OutboxCap

\* outbox c got exactly one envelope at its end
Grew(c) ==
  /\ Len(outbox'[c]) = Len(outbox[c]) + 1
  /\ SubSeq(outbox'[c], 1, Len(outbox[c])) = outbox[c]

\* C11: in a broadcast every client of the set whose outbox has room gets the
\* envelope, whether or not another client is full; a full client gets
\* nothing and is scheduled for removal; a client scheduled for removal is
\* eventually out of the client set with its outbox closed.
C11_BroadcastNonBlocking ==
  /\ [][Broadcasts =>
          /\ \A c \in clients :
               IF HasRoom(c)
                 THEN /\ Grew(c)
                      /\ \A d \in clients :
                           HasRoom(d) => outbox'[d][Len(outbox'[d])]
                                           = outbox'[c][Len(outbox'[c])]
                 ELSE outbox'[c] = outbox[c] /\ c \in removals'
          /\ \A c \in Clients \ clients : outbox'[c] = outbox[c]]_vars
  /\ \A c \in Clients : (c \in removals) ~> (c \notin clients /\ c \in oclosed)

\* a broadcast found one client full and scheduled its removal while it
\* delivered the envelope to another client
C11_Witness ==
  \E c \in clients : \E d \in clients \ {c} :
    /\ c \in removals
    /\ Len(outbox[c]) = OutboxCap
    /\ outbox[d] # <<>>
    /\ outbox[d][Len(outbox[d])].T \in {"tmux_command", "tmux_state"}
    /\ \A i \in DOMAIN outbox[c] : outbox[c][i] # outbox[d][Len(outbox[d])]

\* ------------------------------------------------------------------------
\* Properties of event consumption
\* ------------------------------------------------------------------------
\* the consumer of generation g leaves position pc in this step
ConsLeaves(g, pc) == cons[g].pc = pc /\ cons'[g].pc # pc

WantsState(g) == cons[g].state # <<>>

WantsSnapshot(g) ==
  /\ cons[g].pend.Name = cCapturePane
  /\ cons[g].pend.TargetPane # <<>>
  /\ cons[g].pend.EmitPaneSnapshot

\* the first output line is __WMUX_CURSOR, x, y with x and y numerals
CursorLine(out) ==
  /\ Len(out) > 0
  /\ Len(out[1]) = 3
  /\ out[1][1] = "__WMUX_CURSOR"
  /\ \E i \in 1..10 : Numerals[i] = out[1][2]
  /\ \E i \in 1..10 : Numerals[i] = out[1][3]

WantsCursor(g) ==
  /\ cons[g].pend.Name = cDisplayMessage
  /\ cons[g].pend.TargetPane # <<>>
  /\ CursorLine(cons[g].ev.Output)

\* where the consumer goes after the envelopes up to rank n of its event
\* (1 tmux_command, 2 tmux_state, 3 pane_snapshot, 4 pane_cursor)
NextEnvelope(g, n) ==
  IF n < 2 /\ WantsState(g) THEN "bstate"
  ELSE IF n < 3 /\ WantsSnapshot(g) THEN "bsnap"
  ELSE IF n < 4 /\ WantsCursor(g) THEN "bcursor"
  ELSE "recv"

C24_OutboxClosedOnce ==
  /\ [](clients \cap oclosed = {})
  /\ [](\A c \in Clients : sess[c].pc = "gone" => c \in oclosed)
  /\ [][/\ oclosed \subseteq oclosed'
        /\ \A c \in oclosed' \ oclosed : c \in clients /\ c \notin clients']_vars
  /\ [][\A c \in Clients \ clients : c \in clients' => sess[c].pc = "new"]_vars
  /\ [][\A c \in Clients : Grew(c) => (c \notin oclosed /\ c \notin oclosed')]_vars
  /\ [][\A c \in Clients :
          (c \in oclosed /\ sess[c].pc = "read" /\ sess'[c].n # sess[c].n) =>
            (outbox' = outbox /\ sess'[c].pc = "read")]_vars

\* a client session whose outbox is closed has ended while a removal
\* scheduled by a broadcast that found its outbox full has not run yet
C24_Witness ==
  \E c \in Clients :
    /\ c \in oclosed
    /\ sess[c].pc = "gone"
    /\ sess[c].n > 0
    /\ c \in removals

\* the notification of the k-th line the readers delivered
DeliveredNote(k) == parseNotification(mgr.delivered[k]).n

\* C25: for every client and pane, the pane_output envelopes enqueued to the
\* client are in the order in which the readers delivered their %output
\* lines (some may be missing), and each carries the pane id args[0] and
\* the decoded value of its line.
C25_PaneOutputOrder ==
  \A c \in Clients :
    /\ \A i, j \in DOMAIN sess[c].outs :
         (i < j /\ sess[c].outs[i].pane = sess[c].outs[j].pane) =>
           sess[c].outs[i].seq < sess[c].outs[j].seq
    /\ \A i \in DOMAIN sess[c].outs :
         /\ sess[c].outs[i].seq \in DOMAIN mgr.delivered
         /\ sess[c].outs[i].pane = DeliveredNote(sess[c].outs[i].seq).Args[1]
         /\ sess[c].outs[i].data =
              DecodeEscapedValue(DeliveredNote(sess[c].outs[i].seq).Value)

\* the bytes at the end of b that start a UTF-8 sequence and do not finish it
IncompleteTail(b) ==
  LET starts(k) ==
        /\ b[Len(b) - k + 1] >= 192
        /\ (IF b[Len(b) - k + 1] >= 240 THEN 4
            ELSE IF b[Len(b) - k + 1] >= 224 THEN 3 ELSE 2) > k
        /\ \A j \in (Len(b) - k + 2)..Len(b) : b[j] >= 128 /\ b[j] < 192
  IN IF \E k \in 1..Min(3, Len(b)) : starts(k)
       THEN SubSeq(b, Len(b) - (CHOOSE k \in 1..Min(3, Len(b)) : starts(k)) + 1, Len(b))
       ELSE <<>>

\* the decoded bytes of the first k delivered lines that are for pane paneID
RECURSIVE PaneBytes(_, _)
PaneBytes(paneID, k) ==
  IF k = 0 THEN <<>>
  ELSE PaneBytes(paneID, k - 1)
       \o (IF DeliveredNote(k).Args[1] = paneID
             THEN DecodeEscapedValue(DeliveredNote(k).Value) ELSE <<>>)

\* the data due for the k-th delivered line when the incomplete tail of the
\* bytes of its pane is withheld and prefixed to the next chunk
CarriedData(k) ==
  LET paneID == DeliveredNote(k).Args[1]
      now == PaneBytes(paneID, k)
      before == PaneBytes(paneID, k - 1)
  IN SubSeq(now, Len(before) - Len(IncompleteTail(before)) + 1,
            Len(now) - Len(IncompleteTail(now)))

\* C26: the data of every pane_output envelope is the decoded bytes of its
\* chunk with the withheld tail of the earlier chunks of the pane in front
\* and without its own incomplete tail: "" for \342 and the bytes of U+2500
\* for the \224\200 that follows it.
C26_CarryAcrossChunks ==
  \A c \in Clients : \A i \in DOMAIN sess[c].outs :
    sess[c].outs[i].data = CarriedData(sess[c].outs[i].seq)

\* ------------------------------------------------------------------------
\* Properties of CapturePaneContent
\* ------------------------------------------------------------------------
timeoutError == "timed out waiting for tmux response"

\* C13: a call of CapturePaneContent that has registered its entry returns;
\* when it stops waiting it returns the result its awaiter was signalled with
\* or, with no result, the timeout error, and this step changes no outbox and
\* schedules no removal.
C13_CaptureTerminates ==
  /\ (cap[1].pc \in {"registered", "waiting"}) ~> (cap[1].pc \in {"returned", "failed"})
  /\ [][\A k \in CapIds :
          (cap[k].pc = "waiting" /\ cap'[k].pc # "waiting") =>
            /\ outbox' = outbox
            /\ removals' = removals
            /\ clients' = clients
            /\ \/ /\ cap[k].done # <<>>
                  /\ cap[k].done[1].Success
                  /\ cap'[k].pc = "returned"
                  /\ cap'[k].res = JoinLines(cap[k].done[1].Output)
               \/ /\ cap[k].done # <<>>
                  /\ ~cap[k].done[1].Success
                  /\ cap'[k].pc = "failed"
                  /\ cap'[k].res # timeoutError
               \/ /\ cap'[k].pc = "failed"
                  /\ cap'[k].res = timeoutError]_vars

\* a restart emptied the pending FIFO while a call waited, no result came,
\* and the call returned the timeout error
C13_Witness ==
  \E k \in CapIds :
    /\ cap[k].pc = "failed"
    /\ cap[k].res = timeoutError
    /\ cap[k].done = <<>>
    /\ \E i \in DOMAIN written : written[i].tok = cap[k].tok
    /\ parser >= 1
    /\ mgr.pc = "backoff"

\* ------------------------------------------------------------------------
\* Properties of the parser
\* ------------------------------------------------------------------------
hA == [EpochSeconds |-> 1, CommandID |-> 2, Flags |-> 0]

hB == [EpochSeconds |-> 1, CommandID |-> 3, Flags |-> 0]

\* the header a well-formed %begin line carries
BeginHeader(l) == IF l = lBeginA THEN <<hA>> ELSE IF l = lBeginB THEN <<hB>> ELSE <<>>

\* the header and the outcome a well-formed %end or %error line carries
EndHeader(l) ==
  IF l \in {lEndA, lErrorA} THEN <<hA>> ELSE IF l = lEndB THEN <<hB>> ELSE <<>>

EndSuccess(l) == l \in {lEndA, lEndB}

\* the lines that are output inside a block: no control boundary
BlockOutput == {lText, lOutput, lExit, <<>>}

\* the notification a well-formed notification line stands for
Notified(l) ==
  IF l = lOutput THEN <<Note(nName.output, lOutput, << <<"%", "1">> >>, <<>>, <<" ", "h", "i">>)>>
  ELSE IF l = lExit THEN <<Note(nName.exit, lExit, <<>>, <<>>, <<>>)>>
  ELSE <<>>

\* the events of a sequence of well-formed blocks and notifications, read
\* off the lines: [ok, evs]; open is the begin header of the block the lines
\* are in, out the output lines of that block so far
RECURSIVE WellFormedEvents(_, _, _)
WellFormedEvents(lines, open, out) ==
  IF lines = <<>> THEN [ok |-> open = <<>>, evs |-> <<>>]
  ELSE IF open = <<>>
    THEN IF BeginHeader(Head(lines)) # <<>>
           THEN WellFormedEvents(Tail(lines), BeginHeader(Head(lines)), <<>>)
         ELSE IF Notified(Head(lines)) # <<>>
           THEN [ok |-> WellFormedEvents(Tail(lines), <<>>, <<>>).ok,
                 evs |-> Notified(Head(lines))
                         \o WellFormedEvents(Tail(lines), <<>>, <<>>).evs]
         ELSE [ok |-> FALSE, evs |-> <<>>]
  ELSE IF EndHeader(Head(lines)) = open
    THEN [ok |-> WellFormedEvents(Tail(lines), <<>>, <<>>).ok,
          evs |-> <<Command(open[1], open[1], EndSuccess(Head(lines)), out)>>
                  \o WellFormedEvents(Tail(lines), <<>>, <<>>).evs]
  ELSE IF Head(lines) \in BlockOutput
    THEN WellFormedEvents(Tail(lines), open, Append(out, Head(lines)))
  ELSE [ok |-> FALSE, evs |-> <<>>]

LastLine == sp.fed[Len(sp.fed)]

\* the last FeedLine found the parser inside a block
WasInBlock == sp.fed # <<>> /\ sp.prev[1].current # <<>>

\* the last FeedLine found the parser outside a block
WasOutside == sp.fed # <<>> /\ sp.prev[1].current = <<>>

\* C15: inside a block, a well-formed %end or %error line whose header is not
\* the begin header closes the block and emits a ParseError and then one
\* Command with the begin header as Header, the marker's header as End, the
\* success of the marker and the output collected so far.
C15_MismatchedEndClosesBlock ==
  (WasInBlock /\ EndHeader(LastLine) # <<>> /\ EndHeader(LastLine) # sp.prev[1].current) =>
    /\ sp.current = <<>>
    /\ sp.cmd = <<>>
    /\ Len(sp.evs) = 2
    /\ sp.evs[1].T = "ParseError"
    /\ sp.evs[1].Line = LastLine
    /\ sp.evs[2] = Command(sp.prev[1].current[1], EndHeader(LastLine)[1],
                           EndSuccess(LastLine), sp.prev[1].cmd[1].Output)
    /\ SubSeq(sp.sent, Len(sp.sent) - 1, Len(sp.sent)) = sp.evs

\* a block begun with one header, holding an output line, closed by %error
\* with another header
C15_Witness ==
  /\ sp.fed = <<lBeginB, lText, lErrorA>>
  /\ sp.sent[2] = Command(hB, hA, FALSE, <<lText>>)

\* the lines that start with a marker prefix not followed by a space
MalformedBoundary == {lBeginX, lEndX, lErrorX}

\* C16 as stated: inside a block, a line that starts with %begin, %end or
\* %error without the space emits ParseError "malformed control boundary",
\* is not appended and leaves the block open.
C16_MalformedBoundaryMessage ==
  (WasInBlock /\ LastLine \in MalformedBoundary) =>
    /\ sp.evs = <<ParseError(LastLine, "malformed control boundary")>>
    /\ sp.current = sp.prev[1].current
    /\ sp.cmd = sp.prev[1].cmd

\* C16: inside a block, a line that starts with a marker prefix without the
\* space emits one ParseError for that line, is not appended and leaves the
\* block open with its header; the message is "malformed control boundary"
\* for %begin, "invalid %end line" for %end and "invalid %error line" for
\* %error.
C16_MalformedBoundaryRejected ==
  (WasInBlock /\ LastLine \in MalformedBoundary) =>
    /\ sp.evs = <<ParseError(LastLine,
                             IF LastLine = lBeginX THEN "malformed control boundary"
                             ELSE IF LastLine = lEndX THEN "invalid %end line"
                             ELSE "invalid %error line")>>
    /\ sp.sent[Len(sp.sent)] = sp.evs[1]
    /\ sp.current = sp.prev[1].current
    /\ sp.cmd = sp.prev[1].cmd

\* a block with one output line was fed %end without the space
C16_Witness ==
  /\ sp.fed = <<lBeginA, lText, lEndX>>
  /\ sp.current = <<hA>>
  /\ sp.cmd[1].Output = <<lText>>
  /\ sp.sent = <<ParseError(lEndX, "invalid %end line")>>

\* C17: outside a block, a well-formed %end or %error line emits one
\* ParseError and no Command and leaves the parser outside a block; the
\* well-formed blocks and notifications fed after it yield their events.
C17_StrayEndIsError ==
  /\ (WasOutside /\ EndHeader(LastLine) # <<>>) =>
        /\ sp.evs = <<ParseError(LastLine, "end/error without begin")>>
        /\ sp.sent[Len(sp.sent)] = sp.evs[1]
        /\ sp.current = <<>>
        /\ sp.cmd = sp.prev[1].cmd
  /\ (/\ sp.fed # <<>>
      /\ EndHeader(Head(sp.fed)) # <<>>
      /\ WellFormedEvents(Tail(sp.fed), <<>>, <<>>).ok) =>
        sp.sent = <<ParseError(Head(sp.fed), "end/error without begin")>>
                  \o WellFormedEvents(Tail(sp.fed), <<>>, <<>>).evs

\* a stray %error, then a block that yields its Command
C17_Witness ==
  /\ sp.fed = <<lErrorA, lBeginA, lEndA>>
  /\ sp.sent = <<ParseError(lErrorA, "end/error without begin"),
                 Command(hA, hA, TRUE, <<>>)>>

\* ------------------------------------------------------------------------
\* Properties of StreamParser.Close
\* ------------------------------------------------------------------------
\* C18: with any sequential and concurrent calls of Close the event channel
\* is closed at most once, and once a Close has returned exactly once;
\* no close of a closed channel and no send on a closed channel happens; the
\* events sent are the events received followed by the events still in the
\* channel, before and after the close; once closed is set no event is
\* sent, so a FeedLine after a Close has returned emits nothing.
C18_CloseIdempotent ==
  /\ [](/\ sp.nclose <= 1
        /\ sp.panic \notin {"close of closed channel", "send on closed channel"}
        /\ sp.recv \o sp.ch = sp.sent
        /\ sp.closed <=> (sp.nclose = 1)
        /\ sp.ret > 0 => sp.closed)
  /\ [][sp.closed => (sp'.closed /\ sp'.sent = sp.sent /\ sp'.nclose = sp.nclose)]_vars

\* one Close has closed the channel and returned while the other caller is
\* past its first look at closed; an event sent before the close is still
\* in the channel, and a FeedLine after the close has returned
C18_Witness ==
  /\ sp.nclose = 1
  /\ sp.ret >= 1
  /\ \E t \in Closers : sp.thr[t].pc = "lock"
  /\ sp.ch # <<>>
  /\ sp.late >= 1

\* ------------------------------------------------------------------------
\* Properties of the supervisor
\* ------------------------------------------------------------------------
notReady == "tmux control mode not ready"

\* C19: while no writer is published no Send writes anything: the call of
\* CapturePaneContent fails with the not-ready error of Send and a state
\* sync attempt counts as failed; this is so before the first launch,
\* between the return of a run and the next launch, and after cancellation.
C19_SendNotReady ==
  /\ [][~mgr.running =>
          /\ written' = written
          /\ \A k \in CapIds :
               (cap[k].pc = "registered" /\ cap'[k] # cap[k]) =>
                 (cap'[k].pc = "failed" /\ cap'[k].res = notReady)
          /\ \A k \in SyncIds :
               (sync[k].pc = "try" /\ sync'[k] # sync[k]) =>
                 (sync'[k].n = sync[k].n + 1 /\ sync'[k].pc \in {"try", "done"})]_vars
  /\ [](mgr.pc \in {"new", "launch", "r_swap", "r_close", "r_clear", "r_state",
                     "r_restarted", "r_sync", "backoff", "done"} => ~mgr.running)

\* after a cancellation that ended a run, Send was refused with the
\* not-ready error and only the lines of the run are written
C19_Witness ==
  /\ mgr.pc = "done"
  /\ mgr.cancelled
  /\ mgr.run = 1
  /\ \E k \in CapIds : cap[k].pc = "failed" /\ cap[k].res = notReady
  /\ Len(written) = 1

\* the steps of Run and of the OnRestart it calls, in the order of the code
RunSteps ==
  {<<"launch", "wait">>, <<"launch", "r_swap">>, <<"launch", "done">>,
   <<"wait", "r_swap">>, <<"wait", "done">>,
   <<"r_swap", "r_close">>, <<"r_close", "r_clear">>, <<"r_clear", "r_state">>,
   <<"r_state", "r_restarted">>, <<"r_restarted", "r_sync">>, <<"r_sync", "backoff">>,
   <<"backoff", "launch">>, <<"backoff", "done">>}

\* Run calls OnRestart: Hub.BroadcastRestart starts with a new parser
OnRestartInvoked == parser' # parser

\* C20 as stated, its last part: OnRestart is never invoked after the
\* context has been cancelled.
C20_NoRestartAfterCancel == [][OnRestartInvoked => ~mgr.cancelled]_vars

\* C20: Run moves only along launch, wait, OnRestart, backoff, launch. When a
\* run returns (exit, read error or failed launch) the writer is cleared, and
\* Run goes on to OnRestart exactly when it finds the context not cancelled
\* at that moment, and returns otherwise; OnRestart is invoked once on the
\* way from the return of a run to the backoff, with no writer published,
\* and a subprocess is launched only after the backoff, with the context
\* not cancelled.
C20_RestartSequence ==
  /\ [][mgr'.pc # mgr.pc => <<mgr.pc, mgr'.pc>> \in RunSteps]_vars
  /\ [][(mgr.pc \in {"launch", "wait"} /\ mgr'.pc \in {"r_swap", "done"}) =>
          /\ ~mgr'.running
          /\ mgr'.pc = "r_swap" <=> ~mgr.cancelled]_vars
  /\ [][OnRestartInvoked <=> (mgr.pc = "r_swap" /\ mgr'.pc = "r_close")]_vars
  /\ [][OnRestartInvoked => (parser' = parser + 1 /\ ~mgr.running)]_vars
  /\ [][mgr'.run # mgr.run =>
          /\ mgr.pc = "launch" /\ mgr'.pc = "wait"
          /\ mgr'.run = mgr.run + 1
          /\ ~mgr.cancelled
          /\ mgr'.running]_vars
  /\ [](mgr.pc \in {"r_swap", "r_close", "r_clear", "r_state", "r_restarted", "r_sync",
                     "backoff"} => ~mgr.running)

\* a subprocess exited, OnRestart ran once, the backoff elapsed and the
\* second subprocess runs
C20_Witness ==
  /\ mgr.run = 2
  /\ parser = 1
  /\ mgr.running
  /\ mgr.pc = "wait"
  /\ ~mgr.cancelled

\* C21: the delay slept before the n-th relaunch is min(base * 2^(n-1), cap)
\* with the base and the cap NewManager has put in the configuration; the
\* delays do not decrease and none exceeds the cap.
C21_CappedExponential ==
  \A n \in 1..Len(mgr.slept) :
    /\ mgr.slept[n] = Min(mgr.cfg.BackoffBase * Pow2(n - 1), mgr.cfg.BackoffMax)
    /\ mgr.slept[n] <= mgr.cfg.BackoffMax
    /\ n > 1 => mgr.slept[n - 1] <= mgr.slept[n]

\* the same for a base that is not above the cap NewManager leaves
C21_CappedWhenBaseBelowCap ==
  mgr.cfg.BackoffBase <= mgr.cfg.BackoffMax => C21_CappedExponential

\* C23: once the context is cancelled, Run returns from the top of the loop,
\* from the wait on a running subprocess and from the backoff sleep; no
\* subprocess is launched after the cancellation, and Run that has returned
\* stays returned.
C23_CancelTerminates ==
  /\ (mgr.cancelled /\ mgr.pc \in {"launch", "wait", "backoff"}) ~> (mgr.pc = "done")
  /\ [][mgr.cancelled => mgr'.run = mgr.run]_vars
  /\ [][mgr.pc = "done" => (mgr'.pc = "done" /\ ~mgr'.running)]_vars
  /\ [](mgr.pc = "done" => mgr.cancelled)

\* Run has returned out of the backoff sleep that followed one restart
C23_Witness ==
  /\ mgr.pc = "done"
  /\ mgr.cancelled
  /\ parser = 1
  /\ mgr.run = 1
  /\ mgr.slept = <<>>

\* the control-mode subprocesses launched by Run that are running
Subprocesses == mgr.orphans + (IF mgr.alive THEN 1 ELSE 0)

\* C22: at most one subprocess launched by the supervisor is running, so none
\* was launched while an earlier one still ran, and a writer is published
\* only while Run waits on the subprocess it launched last.
C22_OneSubprocess ==
  /\ Subprocesses <= 1
  /\ mgr.running => mgr.pc = "wait"

\* ------------------------------------------------------------------------
\* modelState.applyOutputLines called repeatedly with one list of output
\* lines of a query response
\* ------------------------------------------------------------------------
MaxApplies == 2

\* lines of one query response
MaxModelLines == 2

\* output lines of a state query: window and pane records, a window and a
\* pane listed a second time (a window linked into a second session), two
\* windows with one index, two panes with one pane index in one window, a
\* pane record of the short format, records with too few fields, with a
\* field that is no integer and of an unknown kind, and a line without the
\* model prefix
ModelLines ==
  { <<"__WMUX___win", "@1", "0", "editor">>,
    <<"__WMUX___win", "@1", "1", "editor">>,
    <<"__WMUX___win", "@2", "0", "shell">>,
    <<"__WMUX___win", "@2">>,
    <<"__WMUX___win", "@3", "x", "logs">>,
    <<"__WMUX___zzz", "@3", "0", "logs">>,
    <<"__WMUX___pane", "dev", "%1", "@1", "0", "1", "0", "0", "8", "4", "zsh", "t1">>,
    <<"__WMUX___pane", "ops", "%1", "@1", "0", "1", "0", "0", "8", "4", "zsh", "t1">>,
    <<"__WMUX___pane", "dev", "%2", "@1", "0", "0", "0", "0", "8", "4", "zsh", "t2">>,
    <<"__WMUX___pane", "dev", "%3", "@2", "0", "0", "0", "0", "x", "4", "zsh", "t3">>,
    <<"__WMUX___pane", "%3", "@2", "0", "1", "0", "0", "8", "4", "bash">>,
    <<"%begin", "1", "2", "1">> }

RECURSIVE SeqsUpTo(_, _)
SeqsUpTo(S, n) ==
  IF n = 0 THEN {<<>>}
  ELSE LET shorter == SeqsUpTo(S, n - 1)
       IN shorter \cup {Append(q, x) : q \in {r \in shorter : Len(r) = n - 1}, x \in S}

InitModelCall ==
  \E lines \in SeqsUpTo(ModelLines, MaxModelLines) :
    InitCall("dev", [op |-> "applyOutputLines", lines |-> lines,
                     m |-> newModelState, results |-> <<>>,
                     snap |-> snapshot(newModelState)])

\* m.applyOutputLines(lines) on the model the earlier calls have left
ApplyOutputLines ==
  /\ fn.op = "applyOutputLines"
  /\ Len(fn.results) < MaxApplies
  /\ \E r \in {applyOutputLines(fn.m, fn.lines)} :
       fn' = [fn EXCEPT !.m = r.m, !.results = Append(@, r)]
  /\ UNCHANGED <<hubVars, sp>>

\* modelState.reset between two calls
ResetModel ==
  /\ fn.op = "applyOutputLines"
  /\ fn.results # <<>>
  /\ fn.m # newModelState
  /\ fn' = [fn EXCEPT !.m = newModelState, !.results = <<>>]
  /\ UNCHANGED <<hubVars, sp>>

\* m.snapshot()
Snapshot ==
  /\ fn.op = "applyOutputLines"
  /\ \E r \in {snapshot(fn.m)} : fn' = [fn EXCEPT !.snap = r]
  /\ UNCHANGED <<hubVars, sp>>

NextModel ==
  \/ ApplyOutputLines
  \/ ResetModel
  \/ Snapshot

SpecModel == InitModelCall /\ [][NextModel]_vars

\* C27: a list of output lines applied to the model a second time reports no
\* change and leaves the model as the first application left it.
C27_ModelIdempotent ==
  fn.op = "applyOutputLines" =>
    \A k \in 2..Len(fn.results) :
      /\ ~fn.results[k].updated
      /\ fn.results[k].m = fn.results[k - 1].m

\* the same for a list that names no window and no pane twice with
\* different records
NoConflict(lines) ==
  \A i, j \in 1..Len(lines) :
    LET a == applyLine(newModelState, lines[i])
        b == applyLine(newModelState, lines[j])
    IN (a.updated /\ b.updated) =>
         /\ (a.m.windows # {} /\ b.m.windows # {}) =>
              ({w.ID : w \in a.m.windows} = {w.ID : w \in b.m.windows} => a.m = b.m)
         /\ (a.m.panes # {} /\ b.m.panes # {}) =>
              ({q.ID : q \in a.m.panes} = {q.ID : q \in b.m.panes} => a.m = b.m)

C27_IdempotentWithoutConflict ==
  (fn.op = "applyOutputLines" /\ NoConflict(fn.lines)) => C27_ModelIdempotent

\* ------------------------------------------------------------------------
\* filterStateToTargetSession called on its own result
\* ------------------------------------------------------------------------
MaxWindows == 2

PaneOf(id, session, window) ==
  [ID |-> id, SessionName |-> session, WindowID |-> window, PaneIndex |-> 0,
   Active |-> FALSE, Left |-> 0, Top |-> 0, Width |-> 8, Height |-> 4,
   Name |-> "zsh", Title |-> "t"]

\* panes of two sessions; window @2 holds a pane of each, @3 holds none
FilterPanes == {PaneOf("%1", "dev", "@1"), PaneOf("%2", "ops", "@2"), PaneOf("%3", "dev", "@2")}

FilterWindows == {[ID |-> w, Index |-> 0, Name |-> "w"] : w \in {"@1", "@2", "@3"}}

FilterSessions == {"", "dev", "ops", "qa"}

InitFilterCall ==
  \E ps \in SeqsUpTo(FilterPanes, MaxLines), ws \in SeqsUpTo(FilterWindows, MaxWindows),
     s \in FilterSessions :
    InitCall("dev", [op |-> "filter", state |-> [Windows |-> ws, Panes |-> ps],
                     session |-> s, cur |-> [Windows |-> ws, Panes |-> ps],
                     results |-> <<>>])

\* filterStateToTargetSession(cur, session) on the result of the call before
ApplyFilter ==
  /\ fn.op = "filter"
  /\ Len(fn.results) < MaxApplies
  /\ \E r \in {filterStateToTargetSession(fn.cur, fn.session)} :
       fn' = [fn EXCEPT !.cur = r, !.results = Append(@, r)]
  /\ UNCHANGED <<hubVars, sp>>

NextFilter == ApplyFilter

SpecFilter == InitFilterCall /\ [][NextFilter]_vars

\* the elements of q at the indices in I, in the order of q
RECURSIVE AtIndices(_, _)
AtIndices(q, I) ==
  IF I = {} THEN <<>>
  ELSE LET hi == CHOOSE i \in I : \A j \in I : j <= i
       IN Append(AtIndices(q, I \ {hi}), q[hi])

\* out keeps exactly the panes of session s and exactly the windows that a
\* kept pane references, both in the order of state
ExactFilter(state, out, s) ==
  LET keptPanes == {i \in 1..Len(state.Panes) : state.Panes[i].SessionName = s}
      keptWindows == {i \in 1..Len(state.Windows) :
                        \E j \in keptPanes : state.Panes[j].WindowID = state.Windows[i].ID}
  IN /\ out.Panes = AtIndices(state.Panes, keptPanes)
     /\ out.Windows = AtIndices(state.Windows, keptWindows)

\* C28: filtering a filtered snapshot again changes nothing; filtering to the
\* empty session returns the snapshot; filtering to a session keeps exactly
\* its panes, in order, and exactly the windows a kept pane references.
C28_FilterIdempotentExact ==
  fn.op = "filter" =>
    /\ \A k \in 2..Len(fn.results) : fn.results[k] = fn.results[k - 1]
    /\ (fn.results # <<>> /\ fn.session = "") => fn.results[1] = fn.state
    /\ (fn.results # <<>> /\ fn.session # "") =>
         ExactFilter(fn.state, fn.results[1], fn.session)

\* a snapshot with panes of both sessions and a window no dev pane is in was
\* filtered to dev twice
C28_Witness ==
  /\ fn.op = "filter"
  /\ fn.session = "dev"
  /\ Len(fn.results) = 2
  /\ fn.state.Panes = <<PaneOf("%2", "ops", "@2"), PaneOf("%1", "dev", "@1")>>
  /\ Len(fn.state.Windows) = 2
  /\ Len(fn.results[1].Windows) = 1
  /\ Len(fn.results[1].Panes) = 1

\* ------------------------------------------------------------------------
\* encodeArgvCommand and the word split of the receiver of the command line
\* ------------------------------------------------------------------------
MaxArgLen == 3

\* a letter of the safe class, the quote, the backslash, a blank and a
\* newline
ArgChars == {"a", "'", "\\", " ", "\n"}

\* command names: non-empty tokens of the safe class without upper case
QuoterCommands == {<<"l", "s">>, <<"%", "1">>}

\* arguments placed next to the argument drawn from every string
FixedArgs == {<<>>, <<"-", "t">>, <<"'">>}

QuoterArgvs ==
  UNION {{<<c>>} \cup {<<c, a>> : a \in SeqsUpTo(ArgChars, MaxArgLen)}
           \cup {<<c, a, x>> : a \in SeqsUpTo(ArgChars, MaxArgLen), x \in FixedArgs}
           \cup {<<c, x, a>> : a \in SeqsUpTo(ArgChars, MaxArgLen), x \in FixedArgs}
         : c \in QuoterCommands}

InitQuoterCall ==
  \E argv \in QuoterArgvs :
    InitCall("dev", [op |-> "quoter", pc |-> "encode", argv |-> argv,
                     enc |-> [ok |-> FALSE, line |-> <<>>, err |-> ""],
                     raw |-> <<>>, words |-> <<>>])

\* line, err := encodeArgvCommand(argv)
EncodeArgv ==
  /\ fn.op = "quoter"
  /\ fn.pc = "encode"
  /\ \E r \in {encodeArgvCommand(fn.argv)} :
       fn' = [fn EXCEPT !.enc = r, !.pc = IF r.ok THEN "split" ELSE "done"]
  /\ UNCHANGED <<hubVars, sp>>

\* the shell-like word split: blanks outside quotes separate words, a single
\* quote opens a span that runs to the next single quote and is taken
\* literally, a backslash outside a span takes the next character literally.
\* unquote = FALSE keeps the quoting characters in the words
RECURSIVE SplitFrom(_, _, _, _, _)
SplitFrom(s, cur, inword, inq, unquote) ==
  IF s = <<>> THEN (IF inword THEN <<cur>> ELSE <<>>)
  ELSE LET ch == Head(s)
           lit == IF unquote THEN <<>> ELSE <<ch>>
       IN IF inq
            THEN IF ch = "'" THEN SplitFrom(Tail(s), cur \o lit, TRUE, FALSE, unquote)
                 ELSE SplitFrom(Tail(s), Append(cur, ch), TRUE, TRUE, unquote)
          ELSE IF ch = "'" THEN SplitFrom(Tail(s), cur \o lit, TRUE, TRUE, unquote)
          ELSE IF ch = "\\" /\ Len(s) >= 2
            THEN SplitFrom(Tail(Tail(s)), cur \o lit \o <<s[2]>>, TRUE, FALSE, unquote)
          ELSE IF ch \in {" ", "\t"}
            THEN (IF inword THEN <<cur>> ELSE <<>>)
                 \o SplitFrom(Tail(s), <<>>, FALSE, FALSE, unquote)
          ELSE SplitFrom(Tail(s), Append(cur, ch), TRUE, FALSE, unquote)

SplitWords(line) == SplitFrom(line, <<>>, FALSE, FALSE, TRUE)

RawWords(line) == SplitFrom(line, <<>>, FALSE, FALSE, FALSE)

\* the receiver splits the emitted line
SplitLine ==
  /\ fn.op = "quoter"
  /\ fn.pc = "split"
  /\ \E w \in {SplitWords(fn.enc.line)}, r \in {RawWords(fn.enc.line)} :
       fn' = [fn EXCEPT !.words = w, !.raw = r, !.pc = "done"]
  /\ UNCHANGED <<hubVars, sp>>

NextQuoter ==
  \/ EncodeArgv
  \/ SplitLine

SpecQuoter == InitQuoterCall /\ [][NextQuoter]_vars

QuoteCount(arg) == Cardinality({i \in 1..Len(arg) : arg[i] = "'"})

\* C29: the command line emitted for an argv with a lower-case safe command
\* name splits back into that argv; an empty argument is emitted as '', an
\* argument of the safe class verbatim, any other argument inside single
\* quotes with every quote of it written as '\''.
C29_QuoterRoundTrip ==
  fn.op = "quoter" =>
    /\ fn.pc # "encode" => fn.enc.ok
    /\ fn.pc = "done" =>
         /\ fn.words = fn.argv
         /\ Len(fn.raw) = Len(fn.argv)
         /\ \A i \in 2..Len(fn.argv) :
              LET arg == fn.argv[i]
                  word == fn.raw[i]
              IN IF arg = <<>> THEN word = <<"'", "'">>
                 ELSE IF safeBareToken(arg) THEN word = arg
                 ELSE /\ Head(word) = "'"
                      /\ word[Len(word)] = "'"
                      /\ Len(word) = Len(arg) + 2 + 3 * QuoteCount(arg)

\* an argument with a quote, a blank and a backslash next to an empty
\* argument went through the quoter and the split
C29_Witness ==
  /\ fn.op = "quoter"
  /\ fn.pc = "done"
  /\ fn.argv = << <<"l", "s">>, <<>>, <<"'", " ", "\\">> >>
  /\ fn.enc.line = <<"l", "s", " ", "'", "'", " ", "'", "'", "\\", "'", "'", " ", "\\", "'">>
  /\ fn.words = fn.argv

\* ------------------------------------------------------------------------
\* RequestStateSyncWithRetry with the loop bound of the code, next to a
\* supervisor whose subprocess starts late, fails to start and exits
\* ------------------------------------------------------------------------
NextRetry ==
  \/ SyncTry(0)
  \/ SyncRegister(0)
  \/ MgrLaunchFail
  \/ MgrLaunch
  \/ ProcExit
  \/ MgrExit
  \/ MgrBackoff

SpecRetry ==
  /\ InitRunCall("dev", [BackoffBase |-> 500, BackoffMax |-> 10000, OnRestart |-> FALSE],
                 [op |-> "RequestStateSyncWithRetry"])
  /\ [][NextRetry]_vars
  /\ WF_vars(SyncTry(0))
  /\ WF_vars(SyncRegister(0))

\* the calls of Send the startup invocation has made
SendAttempts == sync[0].n + (IF sync[0].tok # 0 THEN 1 ELSE 0)

\* C30: RequestStateSyncWithRetry returns; it calls Send at most 10 times,
\* makes no attempt after one that succeeded, appends one pending entry when
\* an attempt succeeded and none when all ten failed.
C30_RetryTerminates ==
  /\ (sync[0].pc = "try") ~> (sync[0].pc = "done")
  /\ [](SendAttempts <= syncRetries)
  /\ [][sync[0].tok # 0 =>
          /\ written' = written
          /\ sync'[0].n = sync[0].n
          /\ sync'[0].tok = sync[0].tok]_vars
  /\ [](Len(written) <= 1 /\ Len(pending) <= 1)
  /\ [](pending # <<>> => sync[0].tok # 0)
  /\ [](sync[0].pc = "done" =>
          IF sync[0].tok # 0 THEN Len(pending) = 1
          ELSE pending = <<>> /\ sync[0].n = syncRetries)

\* nine attempts failed while no subprocess ran, the tenth wrote the query
\* and the invocation returned with one pending entry
C30_Witness ==
  /\ sync[0].pc = "done"
  /\ sync[0].n = syncRetries - 1
  /\ sync[0].tok # 0
  /\ Len(pending) = 1
  /\ Len(written) = 1

\* all ten attempts failed
C30_AllFailed ==
  /\ sync[0].pc = "done"
  /\ sync[0].n = syncRetries
  /\ sync[0].tok = 0

\* ------------------------------------------------------------------------
\* properties of the model: snapshot order, the changed flag, growth
\* ------------------------------------------------------------------------
\* C31: every snapshot lists the windows in strictly increasing order of
\* (index, id) and the panes in strictly increasing order of (window_id,
\* pane_index, id), and no window id and no pane id twice.
C31_SnapshotOrdered ==
  fn.op = "applyOutputLines" =>
    LET ws == fn.snap.Windows
        ps == fn.snap.Panes
    IN /\ \A i, j \in 1..Len(ws) :
            i < j =>
              /\ ws[i].ID # ws[j].ID
              /\ \/ ws[i].Index < ws[j].Index
                 \/ ws[i].Index = ws[j].Index /\ StrRank(ws[i].ID) < StrRank(ws[j].ID)
       /\ \A i, j \in 1..Len(ps) :
            i < j =>
              /\ ps[i].ID # ps[j].ID
              /\ \/ StrRank(ps[i].WindowID) < StrRank(ps[j].WindowID)
                 \/ /\ ps[i].WindowID = ps[j].WindowID
                    /\ ps[i].PaneIndex < ps[j].PaneIndex
                 \/ /\ ps[i].WindowID = ps[j].WindowID
                    /\ ps[i].PaneIndex = ps[j].PaneIndex
                    /\ StrRank(ps[i].ID) < StrRank(ps[j].ID)

\* a snapshot of two windows whose ids are in the opposite order of their
\* indexes, and of two panes of one window with one pane index
C31_Witness ==
  /\ fn.op = "applyOutputLines"
  /\ Len(fn.snap.Windows) = 2
  /\ fn.snap.Windows[1].ID = "@2"
  /\ fn.snap.Windows[2].ID = "@1"
  /\ fn.snap.Windows[2].Index = 1

\* the record a line carries, by the grammar of the model update lines:
\* [ok, kind, rec]
LineRecord(line) ==
  LET none == [ok |-> FALSE, kind |-> "", rec |-> <<>>]
      int(s) == \E i \in 1..10 : Numerals[i] = s
      val(s) == (CHOOSE i \in 1..10 : Numerals[i] = s) - 1
  IN IF Len(line) = 0 THEN none
     ELSE IF line[1] = "__WMUX___win"
       THEN IF Len(line) >= 4 /\ int(line[3])
              THEN [ok |-> TRUE, kind |-> "win",
                    rec |-> [ID |-> line[2], Index |-> val(line[3]), Name |-> line[4]]]
              ELSE none
     ELSE IF line[1] = "__WMUX___pane"
       THEN IF Len(line) >= 12 /\ \A k \in {5, 7, 8, 9, 10} : int(line[k])
              THEN [ok |-> TRUE, kind |-> "pane",
                    rec |-> [ID |-> line[3], SessionName |-> line[2], WindowID |-> line[4],
                             PaneIndex |-> val(line[5]), Active |-> (line[6] = "1"),
                             Left |-> val(line[7]), Top |-> val(line[8]),
                             Width |-> val(line[9]), Height |-> val(line[10]),
                             Name |-> line[11], Title |-> line[12]]]
            ELSE IF Len(line) \in {10, 11} /\ \A k \in {4, 6, 7, 8, 9} : int(line[k])
              THEN [ok |-> TRUE, kind |-> "pane",
                    rec |-> [ID |-> line[2], SessionName |-> "", WindowID |-> line[3],
                             PaneIndex |-> val(line[4]), Active |-> (line[5] = "1"),
                             Left |-> val(line[6]), Top |-> val(line[7]),
                             Width |-> val(line[8]), Height |-> val(line[9]),
                             Name |-> line[10], Title |-> line[10]]]
            ELSE none
     ELSE none

\* the line inserts a record or alters a field of a record of m
Effective(m, line) ==
  LET r == LineRecord(line)
  IN /\ r.ok
     /\ r.rec \notin (IF r.kind = "win" THEN m.windows ELSE m.panes)

\* the model the k-th call of the sequence was applied to
Before(k) == IF k = 1 THEN newModelState ELSE fn.results[k - 1].m

NextCaptureFail ==
  \/ MgrLaunch
  \/ ProcRespond
  \/ ProcExit
  \/ MgrExit
  \/ \E r \in 1..(MaxRestarts + 1) : ReaderFeed(r)
  \/ SyncTry(0)
  \/ SyncRegister(0)
  \/ \E g \in Gens : ConsumeCommand(g)
  \/ \E g \in Gens : ConsumeApply(g)
  \/ \E g \in Gens : ConsumeBroadcastCommand(g)
  \/ \E g \in Gens : ConsumeBroadcastState(g)
  \/ \E e \in BOOLEAN : CaptureStart(1, pane1, e)
  \/ CaptureSend(1)
  \/ CaptureReturn(1)
  \/ CaptureTimeout(1)

SpecCaptureFail == InitMain("dev") /\ [][NextCaptureFail]_vars

\* the positions of the pending entries of the call k
OwnEntries(k) == {i \in DOMAIN pending : pending[i].Wait = k}

\* C33: when runCommandAndWait returns the error of an unbound supervisor or
\* of a failed Send, that step takes the entry the call had appended, and no
\* other, out of the pending FIFO: the entry is still there, and the other
\* entries stay in their order.
C33_FailureRemovesOwnEntry ==
  [][\A k \in CapIds :
       (cap[k].pc = "registered" /\ cap'[k].pc = "failed") =>
         \E i \in OwnEntries(k) :
           pending' = SubSeq(pending, 1, i - 1) \o SubSeq(pending, i + 1, Len(pending))]_vars

\* ------------------------------------------------------------------------
\* the model between restarts: the responses to the state syncs and to a
\* client's list-windows are applied, the restart after the exit of the
\* first subprocess resets
\* ------------------------------------------------------------------------
NextGrowth ==
  \/ MgrLaunch
  \/ ProcRespond
  \/ mgr.run = 1 /\ ProcExit
  \/ MgrExit
  \/ MgrBackoff
  \/ \E r \in 1..(MaxRestarts + 1) : ReaderFeed(r)
  \/ RestartSwap
  \/ RestartClose
  \/ RestartClear
  \/ RestartState
  \/ RestartRestarted
  \/ RestartSync
  \/ \E k \in SyncIds : SyncTry(k)
  \/ \E k \in SyncIds : SyncRegister(k)
  \/ ClientAdd("c1")
  \/ ClientInit("c1")
  \/ ClientRecv("c1", mListWindows)
  \/ ClientRegister("c1")
  \/ \E g \in Gens : ConsumeCommand(g)
  \/ \E g \in Gens : ConsumeApply(g)
  \/ \E g \in Gens : ConsumeBroadcastCommand(g)
  \/ \E g \in Gens : ConsumeBroadcastState(g)

SpecGrowth == InitSynced("dev") /\ [][NextGrowth]_vars

WindowIDs(m) == {w.ID : w \in m.windows}

PaneIDs(m) == {q.ID : q \in m.panes}

\* C34: the model changes only when a consumer applies the output of a
\* response and when the restart handler resets it; in every step other
\* than the reset no window id and no pane id leaves the model.
C34_ModelGrowsBetweenRestarts ==
  /\ [][model' # model =>
          \/ \E g \in Gens : cons[g].pc = "apply" /\ cons'[g].pc = "bcmd"
          \/ mgr.pc = "r_clear" /\ mgr'.pc = "r_state" /\ model' = newModelState]_vars
  /\ [][mgr'.pc = mgr.pc =>
          /\ WindowIDs(model) \subseteq WindowIDs(model')
          /\ PaneIDs(model) \subseteq PaneIDs(model')]_vars

\* the response to a client's list-windows, which names no pane, was applied
\* to the model of the two panes
C34_Witness ==
  /\ parser = 0
  /\ WindowIDs(model) = {"@1", "@2"}
  /\ PaneIDs(model) = {"%1", "%2"}

\* ------------------------------------------------------------------------
\* events of the subprocess that ran before a restart
\* ------------------------------------------------------------------------
\* the line of request t was written before the restart that made the
\* current parser
WrittenBeforeRestart(t) ==
  \E i \in DOMAIN written : written[i].tok = t /\ written[i].run <= parser

\* the restart handler has cleared the model and the pending FIFO
RestartCleared == parser >= 1 /\ mgr.pc \notin {"r_close", "r_clear"}

\* C35: after the restart handler has cleared the model and the pending
\* FIFO, a Command event that answers a line written before the restart
\* pops no pending entry and changes no record of the model.
C35_StaleEventsIgnored ==
  [][\A g \in Gens :
       /\ (/\ RestartCleared
           /\ cons[g].pc = "recv"
           /\ cons'[g].pc # "recv"
           /\ events[g] # <<>>
           /\ Head(events[g]).kind = "Command"
           /\ WrittenBeforeRestart(Head(events[g]).tok))
            => pending' = pending
       /\ (/\ RestartCleared
           /\ cons[g].pc = "apply"
           /\ cons'[g].pc # "apply"
           /\ WrittenBeforeRestart(cons[g].ev.tok))
            => model' = model]_vars

\* ------------------------------------------------------------------------
\* Properties of the broadcast stream of one client
\* ------------------------------------------------------------------------
\* C36 as stated: once a broadcast has dropped an envelope for a client (its
\* removal is scheduled), no later broadcast adds an envelope to the outbox of
\* that client.
C36_NoEnqueueAfterDrop ==
  [][Broadcasts => \A c \in removals : ~Grew(c)]_vars

\* C36: the removal that a dropped envelope schedules is asynchronous. Until
\* it runs the client stays in the client set and a broadcast treats it like
\* any other client: it gets the envelope whenever its outbox has room again,
\* so its stream can have a gap. The scheduled removal, once it runs, takes
\* the client out of the set and closes its outbox, and from then on no
\* broadcast adds anything to it; under fairness it does run.
C36_GapUntilRemoved ==
  /\ [][Broadcasts =>
          \A c \in removals :
            IF c \in clients /\ HasRoom(c) THEN Grew(c) ELSE outbox'[c] = outbox[c]]_vars
  /\ [][\A c \in removals \ removals' : c \notin clients' /\ c \in oclosed']_vars
  /\ \A c \in Clients : (c \in removals) ~> (c \notin removals /\ c \notin clients)

\* the only response so far was broadcast as a tmux_command, which was
\* dropped for a client that is still in the set, and then as a tmux_state,
\* which is in the outbox of that client: the envelope is the unfiltered
\* snapshot that only a broadcast enqueues
C36_Witness ==
  \E c \in removals \cap clients :
    /\ Len(written) = 1
    /\ cons[0].pc = "recv"
    /\ cons[0].state # <<>>
    /\ cons[0].state[1] # filterStateToTargetSession(cons[0].state[1], targetSession)
    /\ outbox[c] = <<[T |-> "tmux_state", State |-> cons[0].state[1]]>>

\* ------------------------------------------------------------------------
\* Relaunch: the subprocess exits after the startup state sync; the retry
\* loop that BroadcastRestart starts runs next to the backoff sleep of Run.
\* Both start together, so the failed attempts of the loop measure the time
\* since the restart: attempt n is made syncSleep * n after it. Timers fire
\* on time and a launch takes less than one sleep of the loop.
\* ------------------------------------------------------------------------
\* time.Sleep(300 * time.Millisecond), in milliseconds
syncSleep == 300

\* the --restart-backoff values of the supervisor under test: the default and
\* the delays the doubling reaches from it under the default cap
RelaunchBases == {500, 1000, 2000, 4000, 8000, 10000}

\* time since retry loop k was started, as far as the loop has got
RetryClock(k) == syncSleep * sync[k].n

\* time.After(backoff) has fired: every attempt of the loop that falls into
\* the sleep has been made
BackoffDue == sync[parser].pc # "try" \/ RetryClock(parser) >= mgr.backoff

\* the next attempt of loop k is due: it does not fall into a launch, and
\* not behind the end of a backoff sleep that has not ended yet
RetryDue(k) ==
  /\ mgr.pc # "launch"
  /\ (mgr.pc = "backoff" /\ k = parser) => RetryClock(k) <= mgr.backoff

\* what the supervisor and the hub do on their own, the exit of the
\* subprocess left out
RelaunchSteps ==
  \/ MgrLaunch
  \/ ProcRespond
  \/ MgrExit
  \/ BackoffDue /\ MgrBackoff
  \/ \E r \in 1..(MaxRestarts + 1) : ReaderFeed(r)
  \/ RestartSwap
  \/ RestartClose
  \/ RestartClear
  \/ RestartState
  \/ RestartRestarted
  \/ RestartSync
  \/ \E k \in SyncIds : RetryDue(k) /\ SyncTry(k)
  \/ \E k \in SyncIds : SyncRegister(k)
  \/ \E g \in Gens : ConsumeCommand(g)
  \/ \E g \in Gens : ConsumeApply(g)
  \/ \E g \in Gens : ConsumeBroadcastCommand(g)
  \/ \E g \in Gens : ConsumeBroadcastState(g)

NextRelaunch ==
  \/ ProcExit
  \/ RelaunchSteps

SpecRelaunch ==
  /\ \E b \in RelaunchBases :
       InitSyncedCall("dev", [BackoffBase |-> b, BackoffMax |-> 10000, OnRestart |-> TRUE],
                      [op |-> "RequestStateSyncWithRetry"])
  /\ [][NextRelaunch]_vars
  /\ WF_vars(RelaunchSteps)

\* a state sync was written to the subprocess of run r
SyncWrittenIn(r) ==
  \E i \in DOMAIN written : written[i].run = r /\ written[i].src = "sync"

\* C37: after every restart, whatever the backoff delay, a list-panes state
\* sync is eventually written to the relaunched subprocess while it runs, and
\* the model that the restart cleared is eventually repopulated.
C37_ResyncLiveness ==
  \A r \in 2..(MaxRestarts + 1) :
    /\ (mgr.run = r /\ mgr.alive) ~> (SyncWrittenIn(r) \/ ~mgr.alive)
    /\ (mgr.run = r /\ mgr.alive) ~> (model # newModelState \/ ~mgr.alive)

\* the same for the restarts whose backoff sleep ends before the last
\* attempt of the retry loop
C37_ResyncWithinWindow ==
  (mgr.cfg.BackoffBase < syncSleep * (syncRetries - 1)) => C37_ResyncLiveness

\* ------------------------------------------------------------------------
\* Properties of the order of the tmux_state envelopes
\* ------------------------------------------------------------------------
\* the consumer of generation g holds a snapshot that it has taken and not
\* broadcast yet
PendingState(g) == cons[g].pc \in {"bcmd", "bstate"} /\ cons[g].state # <<>>

\* HandleWS enqueues the initial tmux_state of client c in this step
Attaches(c) == sess[c].pc = "attached" /\ sess'[c].pc = "read"

\* C38: the initial tmux_state, whose snapshot is taken at the enqueue, is
\* the first envelope of the outbox of the new client, and no snapshot taken
\* before it is still to be broadcast to the client set; the empty snapshot
\* of a restart is not broadcast while a consumer still holds an older
\* snapshot to broadcast. The model is changed only where a snapshot is
\* taken, so a held snapshot that differs from the model is an older one.
C38_StateOrder ==
  [][/\ \A c \in Clients :
          Attaches(c) =>
            /\ outbox[c] = <<>>
            /\ outbox'[c] = <<[T |-> "tmux_state",
                               State |-> filterStateToTargetSession(snapshot(model),
                                                                     targetSession)]>>
            /\ \A g \in Gens : PendingState(g) => cons[g].state[1] = snapshot(model)
            /\ mgr.pc = "r_state" => mgr.snap = snapshot(model)
     /\ Leaves("r_state") =>
          \A g \in Gens :
            (PendingState(g) /\ model = newModelState) => cons[g].state[1] = mgr.snap]_vars

\* ------------------------------------------------------------------------
\* Locks: the hub mutex h.mu (a sync.RWMutex) next to the mutex and the
\* event channel of the parser that a restart replaces. Four goroutines: the
\* stdout reader (BroadcastTmuxStdoutLine, FeedLine), the consumer of the
\* parser (consumeParserEvents), the restart handler (BroadcastRestart) and
\* an HTTP handler that attaches and removes a client. fn holds the state of
\* h.mu and the position of every goroutine, sp is the parser; every step is
\* one call or return of a lock operation or one step of the parser.
\* ------------------------------------------------------------------------
LockThreads == {"reader", "cons", "restart", "client"}

\* positions in which a goroutine is inside h.mu.Lock()
WriteWaits == {"shift", "apply", "swap", "reset", "add", "remove"}

\* positions in which a goroutine is not inside any call
Rests == {"idle", "recv", "done", "new", "attached", "gone"}

InitLocks ==
  InitCall("dev", [op |-> "locks", w |-> "", r |-> {},
                   pc |-> [reader |-> "idle", cons |-> "recv", restart |-> "idle",
                           client |-> "new"],
                   reads |-> 0, toold |-> 0, handled |-> 0, swapped |-> FALSE])

\* h.mu.Lock() returns: no writer and no reader holds the mutex
HubLock(t, a, b) ==
  /\ fn.pc[t] = a
  /\ fn.w = ""
  /\ fn.r = {}
  /\ fn' = [fn EXCEPT !.w = t, !.pc[t] = b]
  /\ UNCHANGED <<hubVars, sp>>

\* h.mu.Unlock(); the goroutine goes on to its next call
HubUnlock(t, a, b) ==
  /\ fn.pc[t] = a
  /\ fn' = [fn EXCEPT !.w = "", !.pc[t] = b]
  /\ UNCHANGED <<hubVars, sp>>

\* a sync.RWMutex lets no new reader in while a writer holds it or waits
MayRLock == fn.w = "" /\ \A t \in LockThreads : fn.pc[t] \notin WriteWaits

\* h.mu.RLock() returns
HubRLock(t, a, b) ==
  /\ fn.pc[t] = a
  /\ MayRLock
  /\ fn' = [fn EXCEPT !.r = @ \cup {t}, !.pc[t] = b]
  /\ UNCHANGED <<hubVars, sp>>

\* h.mu.RUnlock()
HubRUnlock(t, a, b) ==
  /\ fn.pc[t] = a
  /\ fn' = [fn EXCEPT !.r = @ \ {t}, !.pc[t] = b]
  /\ UNCHANGED <<hubVars, sp>>

\* readLines has a line: BroadcastTmuxStdoutLine, h.mu.RLock()
ReaderRLock ==
  /\ fn.pc["reader"] = "idle"
  /\ fn.reads < MaxLines
  /\ MayRLock
  /\ fn' = [fn EXCEPT !.r = @ \cup {"reader"}, !.pc["reader"] = "rlocked", !.reads = @ + 1]
  /\ UNCHANGED <<hubVars, sp>>

\* the read lock is kept over the call of FeedLine
ReaderKeepRLock ==
  /\ fn.pc["reader"] = "rlocked"
  /\ fn' = IF fn.swapped
             THEN [fn EXCEPT !.pc["reader"] = "idle"]
             ELSE [fn EXCEPT !.pc["reader"] = "feed", !.toold = @ + 1]
  /\ UNCHANGED <<hubVars, sp>>

\* parser := h.parser; h.mu.RUnlock(). The line goes to the parser read: to
\* the one in sp, or to its successor, whose channel is not modelled
ReaderRUnlock ==
  /\ fn.pc["reader"] = "rlocked"
  /\ fn' = IF fn.swapped
             THEN [fn EXCEPT !.r = @ \ {"reader"}, !.pc["reader"] = "idle"]
             ELSE [fn EXCEPT !.r = @ \ {"reader"}, !.pc["reader"] = "feed",
                             !.toold = @ + 1]
  /\ UNCHANGED <<hubVars, sp>>

\* parser.FeedLine(line) has returned
ReaderReturn ==
  /\ fn.pc["reader"] = "feed"
  /\ Len(sp.fed) = fn.toold
  /\ sp.thr["feed"].pc = "idle"
  /\ fn' = [fn EXCEPT !.pc["reader"] = "idle"]
  /\ UNCHANGED <<hubVars, sp>>

\* consumeParserEvents has received an event: a Command goes through
\* shiftPending and applyOutputLines, every event through broadcast
ConsHandle ==
  /\ fn.pc["cons"] = "recv"
  /\ Len(sp.recv) > fn.handled
  /\ fn' = [fn EXCEPT !.pc["cons"] =
                IF sp.recv[Len(sp.recv)].T = "Command" THEN "shift" ELSE "bcast"]
  /\ UNCHANGED <<hubVars, sp>>

\* broadcast returns, the consumer is back at the receive
ConsDone ==
  /\ fn.pc["cons"] = "bcasting"
  /\ fn' = [fn EXCEPT !.r = @ \ {"cons"}, !.pc["cons"] = "recv", !.handled = @ + 1]
  /\ UNCHANGED <<hubVars, sp>>

\* Run calls OnRestart: resetParser, h.mu.Lock()
ResetBegin ==
  /\ fn.pc["restart"] = "idle"
  /\ fn' = [fn EXCEPT !.pc["restart"] = "swap"]
  /\ UNCHANGED <<hubVars, sp>>

\* resetParser: h.parser = NewStreamParser(512); h.mu.Unlock()
ResetSwap ==
  /\ fn.pc["restart"] = "swapping"
  /\ fn' = [fn EXCEPT !.w = "", !.swapped = TRUE, !.pc["restart"] = "close"]
  /\ UNCHANGED <<hubVars, sp>>

\* old.Close() has returned; BroadcastRestart: h.mu.Lock()
ResetClosed ==
  /\ fn.pc["restart"] = "close"
  /\ sp.ret = 1
  /\ fn' = [fn EXCEPT !.pc["restart"] = "reset"]
  /\ UNCHANGED <<hubVars, sp>>

\* HandleWS: addClient, h.mu.Lock()
AttachBegin ==
  /\ fn.pc["client"] = "new"
  /\ fn' = [fn EXCEPT !.pc["client"] = "add"]
  /\ UNCHANGED <<hubVars, sp>>

\* readLoop returns: the deferred removeClient, h.mu.Lock()
AttachEnd ==
  /\ fn.pc["client"] = "attached"
  /\ fn' = [fn EXCEPT !.pc["client"] = "remove"]
  /\ UNCHANGED <<hubVars, sp>>

\* the critical sections under the write lock: shiftPending,
\* applyOutputLines, resetParser, model.reset, addClient, removeClient
WriteSections ==
  {<<"cons", "shift", "shifting", "apply">>, <<"cons", "apply", "applying", "bcast">>,
   <<"restart", "swap", "swapping", "">>, <<"restart", "reset", "resetting", "bcast">>,
   <<"client", "add", "adding", "state">>, <<"client", "remove", "removing", "gone">>}

\* the critical sections under the read lock: broadcast, CurrentState
ReadSections ==
  {<<"cons", "bcast", "bcasting", "">>, <<"restart", "bcast", "bcasting", "done">>,
   <<"client", "state", "reading", "attached">>}

\* the lines the subprocess writes: %begin or %end for the first line and
\* for the second, then %end lines, each of which emits an event
LockLines == IF Len(sp.fed) <= 1 THEN {lBeginA, lEndB} ELSE {lEndB}

\* the steps the goroutines take on their own
LockSteps ==
  \/ \E s \in WriteSections : HubLock(s[1], s[2], s[3])
  \/ \E s \in WriteSections : s[4] # "" /\ HubUnlock(s[1], s[3], s[4])
  \/ \E s \in ReadSections : HubRLock(s[1], s[2], s[3])
  \/ \E s \in ReadSections : s[4] # "" /\ HubRUnlock(s[1], s[3], s[4])
  \/ ReaderRUnlock
  \/ \E line \in LockLines :
       fn.pc["reader"] = "feed" /\ Len(sp.fed) < fn.toold /\ FeedEnter(line)
  \/ FeedDeref
  \/ FeedFinish
  \/ \E t \in {"feed", "close1"} : EmitLock(t)
  \/ \E t \in {"feed", "close1"} : EmitSend(t)
  \/ ReaderReturn
  \/ fn.pc["cons"] = "recv" /\ Len(sp.recv) = fn.handled /\ StreamRecv
  \/ ConsHandle
  \/ ConsDone
  \/ ResetSwap
  \/ fn.pc["restart"] = "close" /\ sp.calls = 0 /\ CloseEnter("close1")
  \/ CloseFinish("close1")
  \/ CloseFinishClear("close1")
  \/ CloseLock("close1")
  \/ ResetClosed

NextLocks ==
  \/ ReaderRLock
  \/ ResetBegin
  \/ AttachBegin
  \/ AttachEnd
  \/ FeedParse
  \/ FeedFinish2
  \/ LockSteps

\* the reader is about to run the parser on its line: a step that nothing
\* can block
Parsing == sp.thr["feed"].pc \in {"parse", "finish2"} /\ sp.panic = ""

\* every goroutine that can take a step is eventually scheduled
SpecLocks ==
  /\ InitLocks
  /\ [][NextLocks]_vars
  /\ WF_vars(LockSteps)
  /\ []<>~Parsing

\* no goroutine is inside a call on the hub mutex, inside FeedLine or inside
\* Close, and no event waits in the channel
Quiet ==
  /\ \A t \in LockThreads : fn.pc[t] \in Rests
  /\ \A t \in {"feed", "close1"} : sp.thr[t].pc = "idle"
  /\ Len(sp.recv) = fn.handled
  /\ sp.ch = <<>>

\* C39: no goroutine waits for ever. The reader takes a bounded number of
\* lines, so every behaviour ends with all goroutines out of their calls on
\* the hub mutex, of FeedLine and of Close and with every event received,
\* also when the reader was blocked on the full event channel with the parser
\* mutex held while the restart handler closed the parser. The hub mutex is
\* never held by a writer and a reader at once. A panic of the parser ends
\* the program and is not a deadlock.
C39_NoDeadlock ==
  /\ <>[](Quiet \/ sp.panic # "")
  /\ [](fn.w # "" => fn.r = {})

\* the reader is blocked in emit on the full channel with the parser mutex
\* held, the restart handler is inside Close and waits for that mutex, and
\* the consumer waits for the hub mutex, which the attaching client holds
C39_Witness ==
  /\ sp.thr["feed"].pc = "send"
  /\ sp.mu = "feed"
  /\ Len(sp.ch) = EventCap
  /\ fn.pc["restart"] = "close"
  /\ sp.thr["close1"].pc \in {"emit", "lock"}
  /\ fn.pc["cons"] \in WriteWaits \cup {"bcast"}
  /\ fn.w = "client"

\* ------------------------------------------------------------------------
\* Send: two goroutines call Manager.Send while Run launches the subprocess,
\* waits for it and clears the writer. fn holds the supervisor mutex m.mu,
\* the position of every Send and the bytes that have reached each pty: a
\* write is one byte at a time, as a Write on a file may be.
\* ------------------------------------------------------------------------
Senders == {"s1", "s2"}

SendLines == {<<"l", "s">>, <<"k">>}

\* the ptys of the runs of a behaviour
Writers == 1..(MaxSleeps + 1)

InitSend ==
  InitRunCall("dev", [BackoffBase |-> 500, BackoffMax |-> 10000, OnRestart |-> FALSE],
              [op |-> "Send", mu |-> "",
               thr |-> [t \in Senders |-> [pc |-> "idle", line |-> <<>>, w |-> 0, n |-> 0,
                                            err |-> ""]],
               out |-> [w \in Writers |-> <<>>]])

\* Send(line) is called: m.mu.Lock()
SendCall(t, line) ==
  /\ fn.thr[t].pc = "idle"
  /\ fn' = [fn EXCEPT !.thr[t].pc = "lock", !.thr[t].line = line]
  /\ UNCHANGED <<hubVars, sp>>

\* Send goes on without the mutex
SendNoLock(t) ==
  /\ fn.thr[t].pc = "lock"
  /\ fn' = [fn EXCEPT !.thr[t].pc = "check"]
  /\ UNCHANGED <<hubVars, sp>>

\* m.mu.Lock() returns
SendLock(t) ==
  /\ fn.thr[t].pc = "lock"
  /\ fn.mu = ""
  /\ fn' = [fn EXCEPT !.mu = t, !.thr[t].pc = "check"]
  /\ UNCHANGED <<hubVars, sp>>

\* if !m.running || m.stdin == nil: the error, or m.stdin is read for the
\* write
SendCheck(t) ==
  /\ fn.thr[t].pc = "check"
  /\ fn' = IF ~mgr.running
             THEN [fn EXCEPT !.thr[t].pc = "unlock",
                             !.thr[t].err = "tmux control mode not ready"]
             ELSE [fn EXCEPT !.thr[t].pc = "write", !.thr[t].w = mgr.run]
  /\ UNCHANGED <<hubVars, sp>>

\* io.WriteString(m.stdin, line + "\n"): the next byte reaches the pty, or
\* the write fails because the subprocess is gone; after the last byte the
\* write returns
SendWrite(t) ==
  /\ fn.thr[t].pc = "write"
  /\ LET bytes == fn.thr[t].line \o <<"\n">>
         w == fn.thr[t].w
     IN IF ~(mgr.alive /\ mgr.run = w)
          THEN fn' = [fn EXCEPT !.thr[t].pc = "unlock", !.thr[t].err = "write error"]
          ELSE fn' = [fn EXCEPT !.out[w] = Append(@, [t |-> t, b |-> bytes[fn.thr[t].n + 1]]),
                                !.thr[t].n = @ + 1,
                                !.thr[t].pc = IF fn.thr[t].n + 1 = Len(bytes)
                                                THEN "unlock" ELSE "write"]
  /\ UNCHANGED <<hubVars, sp>>

\* the deferred m.mu.Unlock(); Send returns
SendUnlock(t) ==
  /\ fn.thr[t].pc = "unlock"
  /\ fn' = [fn EXCEPT !.mu = IF @ = t THEN "" ELSE @, !.thr[t].pc = "done"]
  /\ UNCHANGED <<hubVars, sp>>

\* runOnce publishes and clears the writer under m.mu
NextSend ==
  \/ fn.mu = "" /\ MgrLaunch
  \/ ProcExit
  \/ fn.mu = "" /\ MgrExit
  \/ MgrBackoff
  \/ \E t \in Senders, line \in SendLines : SendCall(t, line)
  \/ \E t \in Senders : SendLock(t)
  \/ \E t \in Senders : SendCheck(t)
  \/ \E t \in Senders : SendWrite(t)
  \/ \E t \in Senders : SendUnlock(t)

SpecSend == InitSend /\ [][NextSend]_vars

\* the bytes that Send t has put on pty w
BytesOf(t, w) ==
  LET idx == {i \in DOMAIN fn.out[w] : fn.out[w][i].t = t}
      f[k \in 0..Len(fn.out[w])] ==
        IF k = 0 THEN <<>>
        ELSE IF k \in idx THEN Append(f[k - 1], fn.out[w][k].b) ELSE f[k - 1]
  IN f[Len(fn.out[w])]

\* C40: the bytes of one Send lie next to one another on the pty, they are a
\* prefix of the line and its newline, all of it when the Send has returned
\* without an error, and they are all on the pty that was published when the
\* Send checked; at most one Send is past its Lock, and none is while Run
\* publishes or clears the writer; every byte is written while the writer
\* it goes to is published.
C40_SendSerialized ==
  /\ [](\A w \in Writers : \A i, j, k \in DOMAIN fn.out[w] :
          (i < j /\ j < k /\ fn.out[w][i].t = fn.out[w][k].t) =>
             fn.out[w][j].t = fn.out[w][i].t)
  /\ [](\A t \in Senders : \A w \in Writers :
          LET bytes == fn.thr[t].line \o <<"\n">> IN
          /\ BytesOf(t, w) # <<>> => w = fn.thr[t].w
          /\ w = fn.thr[t].w => BytesOf(t, w) = SubSeq(bytes, 1, fn.thr[t].n)
          /\ (fn.thr[t].pc = "done" /\ fn.thr[t].err = "") => fn.thr[t].n = Len(bytes))
  /\ [](\A t \in Senders : fn.thr[t].pc \in {"check", "write", "unlock"} => fn.mu = t)
  /\ [][\A w \in Writers :
          fn'.out[w] # fn.out[w] => (mgr.running /\ mgr.run = w)]_vars
  /\ [][mgr'.running # mgr.running => fn.mu = ""]_vars

\* one Send is in the middle of its line with the mutex held while the other
\* waits in Lock, on the pty of a relaunched subprocess
C40_Witness ==
  \E t \in Senders : \E u \in Senders \ {t} :
    /\ fn.mu = t
    /\ fn.thr[t].pc = "write"
    /\ fn.thr[t].n = 1
    /\ Len(fn.thr[t].line) > 1
    /\ fn.thr[u].pc = "lock"
    /\ mgr.run > 1


====
